---- MODULE Spec2Model ----
(***************************************************************************)
(* dabbi daemon: the Host-header VM request router with wake-on-request    *)
(* (internal/proxy), the TCP tunnel manager (internal/tunnel), the         *)
(* activity watchdog (internal/watchdog) and the shell session of the      *)
(* daemon's ShellHandler (internal/daemon/handlers).                       *)
(*                                                                         *)
(* Strings that the code inspects character by character (the Host header) *)
(* are sequences of one-character strings.                                 *)
(***************************************************************************)
EXTENDS Integers, Sequences, FiniteSets, TLC

(***************************************************************************)
(* Bounds of the model.                                                    *)
(***************************************************************************)
\* request slots of the wake-on-request workload (Spec)
NumReq == 2
\* request slots of the dispatch workload (DispatchSpec)
NumDispatch == 1
\* concurrent callers of the tunnel manager
NumCallers == 2
\* tunnels created in one run
MaxTunnels == 2
\* host ports the kernel can assign to a listener
NumPorts == 2
\* bytes a far end of a tunneled connection writes
MaxBytes == 2
\* bytes one Read of io.Copy returns at most
BufLen == 2
\* the watchdog's inactivity timeout, in minutes
TimeoutMins == 1
\* ticks of the watchdog's ticker in one run
MaxTicks == 4
\* messages the client of a shell session sends
MaxMsgs == 2
\* messages the client sends in the fairly scheduled session
LiveMsgs == 1

MaxApplies == 2

MaxLines == 4

(***************************************************************************)
(* Program constants.                                                      *)
(***************************************************************************)
agentPort == 1234

StateRunning == "Running"
StateStopped == "Stopped"
StateSuspended == "Suspended"
\* a transitional state the engine reports while a VM boots
StateStarting == "Starting"

\* the states the engine reports of a VM that is changing state
Transitional == {StateStarting, "Restarting", "Suspending", "Unknown"}

(***************************************************************************)
(* Characters and hostPattern: a name (an alphanumeric, then alphanumerics *)
(* or dashes), a dash, decimal digits, a dot, a domain ("localhost" or a   *)
(* non-empty run of alphanumerics, dots and dashes), and optionally a      *)
(* colon with decimal digits; anchored at both ends.                       *)
(***************************************************************************)
Digit == {"0", "1", "2", "3", "4", "5", "6", "7", "8", "9"}

Alpha ==
    {"a", "b", "c", "d", "e", "f", "g", "h", "i", "j", "k", "l", "m",
     "n", "o", "p", "q", "r", "s", "t", "u", "v", "w", "x", "y", "z",
     "A", "B", "C", "D", "E", "F", "G", "H", "I", "J", "K", "L", "M",
     "N", "O", "P", "Q", "R", "S", "T", "U", "V", "W", "X", "Y", "Z"}

AlNum == Alpha \cup Digit

DigitVal(c) ==
    CASE c = "0" -> 0 [] c = "1" -> 1 [] c = "2" -> 2 [] c = "3" -> 3
      [] c = "4" -> 4 [] c = "5" -> 5 [] c = "6" -> 6 [] c = "7" -> 7
      [] c = "8" -> 8 [] c = "9" -> 9

\* strconv.Atoi on a string of decimal digits (short enough not to overflow)
RECURSIVE Atoi(_)
Atoi(ds) ==
    IF ds = << >> THEN 0
    ELSE 10 * Atoi(SubSeq(ds, 1, Len(ds) - 1)) + DigitVal(ds[Len(ds)])

AllIn(s, set) == \A k \in 1..Len(s) : s[k] \in set

\* group 1: the VM name
MatchesName(s) ==
    /\ Len(s) >= 1
    /\ s[1] \in AlNum
    /\ AllIn(s, AlNum \cup {"-"})

\* a non-empty run of decimal digits
MatchesDigits(s) == Len(s) >= 1 /\ AllIn(s, Digit)

\* group 3: the domain
MatchesDomain(s) ==
    \/ s = <<"l", "o", "c", "a", "l", "h", "o", "s", "t">>
    \/ (Len(s) >= 1 /\ AllIn(s, AlNum \cup {".", "-"}))

\* the pattern without its optional colon-port suffix
MatchesTailNoPort(s) == MatchesDomain(s)

\* the domain and the optional colon-port suffix, to the end of the string
MatchesTail(s) ==
    \/ MatchesDomain(s)
    \/ \E k \in 1..Len(s) :
          /\ s[k] = ":"
          /\ MatchesDomain(SubSeq(s, 1, k - 1))
          /\ MatchesDigits(SubSeq(s, k + 1, Len(s)))

\* the (i, j) with host[i] = "-" closing group 1 and host[j] = "." closing group 2
HostSplits(host) ==
    {p \in (1..Len(host)) \X (1..Len(host)) :
        /\ p[1] < p[2]
        /\ host[p[1]] = "-"
        /\ host[p[2]] = "."
        /\ MatchesName(SubSeq(host, 1, p[1] - 1))
        /\ MatchesDigits(SubSeq(host, p[1] + 1, p[2] - 1))
        /\ MatchesTail(SubSeq(host, p[2] + 1, Len(host)))}

\* parseHost: group 1 is greedy, so the match with the longest name is taken
parseHost(host) ==
    IF HostSplits(host) = {}
    THEN [ok |-> FALSE, vmName |-> << >>, port |-> 0]
    ELSE LET p == CHOOSE q \in HostSplits(host) :
                      \A o \in HostSplits(host) : o[1] <= q[1]
         IN  [ok     |-> TRUE,
              vmName |-> SubSeq(host, 1, p[1] - 1),
              port   |-> Atoi(SubSeq(host, p[1] + 1, p[2] - 1))]

(***************************************************************************)
(* The workload: Host headers, credentials, and the engine's VMs.          *)
(***************************************************************************)
\* "a-8.t": VM a, port 8
hostVM == <<"a", "-", "8", ".", "t">>
\* "a-1234.t": VM a, the agent port
hostAgent == <<"a", "-", "1", "2", "3", "4", ".", "t">>
\* "g-8.t:80": a VM the engine does not know
hostGhost == <<"g", "-", "8", ".", "t", ":", "8", "0">>
\* "t:8": no VM pattern (like localhost:8080)
hostPlain == <<"t", ":", "8">>
\* "a.t": no port in the name
hostNoPort == <<"a", ".", "t">>

\* the VMs the engine knows
EngineVMs == {<<"a">>}

\* the IPv4 lists the engine can report for a running VM
IPChoices == {<<"ip1">>, <<"ip2", "ip1">>}

\* the same, for VMs with one address
OneIP == {<<"ip1">>}

\* a request's credentials: ?token=, X-Dabbi-Token, dabbi_agent_token ("" = absent)
Cred(q, h, c) == [query |-> q, header |-> h, cookie |-> c]

NoCred == Cred("", "", "")

\* credential combinations that tell the three sources and their order apart
AgentCreds ==
    {NoCred, Cred("tok", "", ""), Cred("", "tok", ""), Cred("", "", "tok"),
     Cred("bad", "", "tok"), Cred("", "bad", "tok"), Cred("tok", "bad", "bad"),
     Cred("", "tok", "bad"), Cred("", "", "bad")}

\* the wake-on-request workload: requests for VM a, and one that falls through
WakeInputs == {<<hostVM, NoCred>>, <<hostPlain, NoCred>>}

\* the dispatch workload: every host with every credential combination
DispatchInputs ==
    {<<hostAgent, c>> : c \in AgentCreds}
    \cup {<<hostVM, NoCred>>, <<hostVM, Cred("bad", "", "")>>,
          <<hostGhost, NoCred>>, <<hostPlain, Cred("tok", "", "")>>,
          <<hostNoPort, NoCred>>}

Req == 1..NumReq

VARIABLES
    authToken,  \* Router.authToken
    waking,     \* Router.waking: the VM names holding a wake ticket
    req,        \* per request slot: the handler's position, inputs and response
    task,       \* per request slot: the background goroutine it launched
    engine,     \* per VM: the engine's state, IPv4 list, and whether the service listens
    starts,     \* Start calls the engine has received
    stopped,    \* a VM has been stopped or suspended from outside the router
    serial      \* some request arrived after another had been answered

routerVars == <<authToken, waking, req, task, engine, starts, stopped, serial>>

VARIABLES
    tunnels,  \* Manager.tunnels: host port -> tunnel (0: no entry), under Manager.mu
    tun,      \* the Tunnel objects ever made: fields, listener, done channel, serve loop
    caller    \* per caller: the manager call it is in, its arguments and its result

tunnelVars == <<tunnels, tun, caller>>

VARIABLES
    hconn,  \* handleConnection: its position, and whether the dial succeeded
    sock,   \* the daemon's two connections: write half open, connection open
    peer,   \* the far ends (client, VM service): bytes written, FIN sent, gone
    copy,   \* the two io.Copy goroutines: position, bytes read, chunk in hand
    recv    \* the bytes each far end has been handed

connVars == <<hconn, sock, peer, copy, recv>>

VARIABLES
    wd,           \* the watchdog goroutine: its position and checkAllVMs' locals
    guest,        \* per watched VM: the state the engine lists, the checkpoint file
    now,          \* the time, in ticks of the watchdog's one-minute ticker
    stops,        \* per watched VM: Stop calls issued so far
    stopping,     \* per watched VM: Stop calls that have not returned yet
    last,         \* the last check: the VM, what its Exec calls returned, what it did
    steady,       \* per watched VM: every check so far read the idle sample
    restartedAt,  \* the time of the daemon's last restart (0: never)
    stopFailed    \* per watched VM: a Stop returned an error or outlived a tick

watchdogVars == <<wd, guest, now, stops, stopping, last, steady, restartedAt, stopFailed>>

VARIABLES
    shell,      \* ShellHandler.Handle: its position, the bytes not yet written
    heartbeat,  \* the ping goroutine's position
    ptyReader,  \* the PTY-reading goroutine's position
    writeMu,    \* the task holding writeMu ("none": unlocked)
    done,       \* the done channel: close calls made on it, closeDone calls
    closeOnce,  \* closeOnce has run its function
    ptmx,       \* the PTY: open, window size, bytes written to it, output waiting
    cmd,        \* the child process: its state, and whether Wait has reaped it
    ws,         \* the connection: open, tasks inside a write, deadline, ticker
    browser,    \* the client: gone, answering pings, pings and pongs in flight
    inbox,      \* messages the client has sent that ReadMessage has not returned
    handled,    \* the messages ReadMessage has returned, in order
    teardown    \* the cleanup steps Handle has run, in order

shellVars == <<shell, heartbeat, ptyReader, writeMu, done, closeOnce, ptmx, cmd,
               ws, browser, inbox, handled, teardown>>

VARIABLES
    ap,      \* Applier.ApplyToVM: its position, its argument, its staged files, its result
    vmfs,    \* the VM: files under /tmp and /opt/dabbi/network, systemd, the rules in force
    issued,  \* the Exec and Transfer calls the current ApplyToVM has made, in order
    current, \* what the last GetCurrentConfig returned
    lastOK   \* the policy of the last ApplyToVM that returned nil

applierVars == <<ap, vmfs, issued, current, lastOK>>

VARIABLES
    server,  \* the daemon: terminating TLS, the watchdog's stop channel, Shutdown returned
    agents,  \* agent.Manager.listeners as the server's own calls leave it: the
             \* VMs with an agent listener
    listeners,  \* agent.Manager.listeners: VM name -> listener (0: no entry)
    lstn,       \* the listener objects ever made: socket, http.Server, goroutine
    mcall       \* per caller of the agent manager: the call it is in and its locals

managerVars == <<listeners, lstn, mcall>>

serverVars == <<server, agents, managerVars>>

VARIABLES
    cloud  \* one GenerateCloudInitWithNetwork call: its arguments and what it returned

cloudVars == <<cloud>>

\* what the router's and the engine's steps leave alone
outsideRouter == <<tunnelVars, connVars, watchdogVars, shellVars, applierVars, serverVars, cloudVars>>

\* what the tunnel manager's steps leave alone
outsideTunnels == <<routerVars, connVars, watchdogVars, shellVars, applierVars, serverVars, cloudVars>>

\* what the steps of a tunneled connection leave alone
outsideConn == <<routerVars, tunnelVars, watchdogVars, shellVars, applierVars, serverVars, cloudVars>>

\* what the watchdog's steps leave alone
outsideWatchdog == <<routerVars, tunnelVars, connVars, shellVars, applierVars, serverVars, cloudVars>>

\* what the steps of a shell session leave alone
outsideShell == <<routerVars, tunnelVars, connVars, watchdogVars, applierVars, serverVars, cloudVars>>

\* what the network applier's steps leave alone
outsideApplier ==
    <<routerVars, tunnelVars, connVars, watchdogVars, shellVars, serverVars, cloudVars>>

\* what the server's steps leave alone
outsideServer == <<routerVars, tunnelVars, connVars, shellVars, applierVars, cloudVars>>

\* what a cloud-init merge leaves alone
outsideCloud ==
    <<routerVars, tunnelVars, connVars, watchdogVars, shellVars, applierVars, serverVars>>

(***************************************************************************)
(* Pure parts of the router.                                               *)
(***************************************************************************)
\* the cookie issued on every successful check, whatever carried the token
checkAgentAuthAlwaysCookie(cred, token) ==
    LET t == IF cred.query # "" THEN cred.query
             ELSE IF cred.header # "" THEN cred.header
             ELSE cred.cookie
    IN  [ok |-> t = token, cookie |-> IF t = token THEN t ELSE ""]

\* the sources tried in the opposite order: cookie, then header, then query
checkAgentAuthCookieFirst(cred, token) ==
    LET t == IF cred.cookie # "" THEN cred.cookie
             ELSE IF cred.header # "" THEN cred.header
             ELSE cred.query
    IN  [ok     |-> t = token,
         cookie |-> IF t = token /\ (cred.query # "" \/ cred.header # "")
                    THEN t ELSE ""]

\* checkAgentAuth: query parameter, then header, then cookie; the cookie is
\* (re)issued when the token came by query or header
checkAgentAuth(cred, token) ==
    LET t == IF cred.query # "" THEN cred.query
             ELSE IF cred.header # "" THEN cred.header
             ELSE cred.cookie
    IN  [ok     |-> t = token,
         cookie |-> IF t = token /\ (cred.query # "" \/ cred.header # "")
                    THEN t ELSE ""]

agentAuthCookie == "dabbi_agent_token"

cookieMaxAge == 86400

\* checkAgentAuth: the http.Cookie it sets
AgentCookie(token) ==
    [Name |-> agentAuthCookie, Value |-> token, Path |-> "/", HttpOnly |-> TRUE,
     Secure |-> TRUE, SameSite |-> "Strict", MaxAge |-> cookieMaxAge]

\* handleVMRequest: the guard of the agent-port auth check
NeedsAuth(port, token) == port = agentPort /\ token # ""

\* multipass Info: the descriptor of a VM the engine knows, an error otherwise
Info(vm) ==
    IF vm \in EngineVMs
    THEN [err |-> FALSE, state |-> engine[vm].state, ips |-> engine[vm].ips]
    ELSE [err |-> TRUE, state |-> "", ips |-> << >>]

\* the switch with the transitional states sent to wake-on-request
DispatchWakeOthers(info) ==
    IF info.err THEN "404"
    ELSE IF info.state = StateRunning
         THEN IF Len(info.ips) = 0 THEN "503noip" ELSE "proxy"
    ELSE "wake"

\* handleVMRequest: the switch on the Info result
Dispatch(info) ==
    IF info.err THEN "404"
    ELSE IF info.state \in {StateStopped, StateSuspended} THEN "wake"
    ELSE IF info.state = StateRunning
         THEN IF Len(info.ips) = 0 THEN "503noip" ELSE "proxy"
    ELSE "503state"

\* handleVMRequest: the upstream of a proxied request
ProxyTarget(info, port) == <<info.ips[1], port>>

\* fmt's %d of a port number
RECURSIVE Itoa(_)
Itoa(n) ==
    LET d == CHOOSE c \in Digit : DigitVal(c) = n % 10
    IN  IF n < 10 THEN <<d>> ELSE Itoa(n \div 10) \o <<d>>

\* proxyRequest: targetHost, fmt.Sprintf("%s:%d", vmIP, port)
TargetHost(vmIP, port) == <<vmIP, ":">> \o Itoa(port)

\* the outgoing request as the reverse proxy hands it to the Director: the
\* client's Host, no forwarded headers
Outgoing(host) ==
    [sent |-> TRUE, Host |-> host, XForwardedHost |-> << >>, XForwardedProto |-> ""]

\* proxyRequest's Director, statement by statement: the Host is overwritten
\* with the target, then X-Forwarded-Host is set from req.Host, then
\* X-Forwarded-Proto
Director(out, targetHost) ==
    LET r1 == [out EXCEPT !.Host = targetHost]
        r2 == [r1 EXCEPT !.XForwardedHost = r1.Host]
    IN  [r2 EXCEPT !.XForwardedProto = "https"]

\* Store in place of LoadOrStore: the ticket is never found taken
LoadOrStoreBlind(m, k) == [loaded |-> FALSE, map |-> m \cup {k}]

\* sync.Map.LoadOrStore(vmName, true)
LoadOrStore(m, k) == [loaded |-> k \in m, map |-> m \cup {k}]

\* a TCP dial to ip:port reaches a listening service
Reachable(vm, ip) ==
    /\ vm \in EngineVMs
    /\ engine[vm].state = StateRunning
    /\ \E k \in 1..Len(engine[vm].ips) : engine[vm].ips[k] = ip
    /\ engine[vm].up

NoInfo == [err |-> FALSE, state |-> "", ips |-> << >>]

NoPass == [host |-> << >>, cred |-> NoCred]

NoUpstream ==
    [sent |-> FALSE, Host |-> << >>, XForwardedHost |-> << >>, XForwardedProto |-> ""]

NewReq ==
    [pc |-> "new", host |-> << >>, cred |-> NoCred, vm |-> << >>, port |-> 0,
     resp |-> "none", asked |-> FALSE, info |-> NoInfo, target |-> << >>,
     cookie |-> "", passed |-> NoPass, held |-> FALSE, launched |-> FALSE,
     upstream |-> NoUpstream, setCookie |-> << >>]

NoTask == [pc |-> "none", failed |-> FALSE]

InFlight(r) == req[r].pc \notin {"new", "done"}

RouterInit ==
    /\ authToken = ""
    /\ waking = {}
    /\ req = [r \in Req |-> NewReq]
    /\ task = [r \in Req |-> NoTask]
    /\ engine = [vm \in EngineVMs |->
                    [state |-> StateStopped, ips |-> << >>, up |-> FALSE]]
    /\ starts = 0
    /\ stopped = FALSE
    /\ serial = FALSE

\* the Host values of TestParseHost, a host with a dash in its domain, hosts
\* with a bad suffix, and a host with a six-digit port; ok: whether the host
\* has the form name-port.domain[:digits] with a port of one to five digits
ParseCases ==
    {[host |-> <<"m", "y", "v", "m", "-", "8", "0", "8", "0", ".", "l", "o", "c", "a", "l", "h", "o", "s", "t">>,
      ok |-> TRUE],
     [host |-> <<"m", "y", "v", "m", "-", "8", "0", "8", "0", ".", "l", "o", "c", "a", "l", "h", "o", "s", "t", ":", "3", "0", "0", "0">>,
      ok |-> TRUE],
     [host |-> <<"m", "y", "-", "v", "m", "-", "8", "0", "8", "0", ".", "e", "x", "a", "m", "p", "l", "e", ".", "c", "o", "m">>,
      ok |-> TRUE],
     [host |-> <<"a", "-", "1", ".", "l", "o", "c", "a", "l", "h", "o", "s", "t">>,
      ok |-> TRUE],
     [host |-> <<"v", "m", "-", "6", "5", "5", "3", "5", ".", "e", "x", "a", "m", "p", "l", "e", ".", "c", "o", "m">>,
      ok |-> TRUE],
     [host |-> <<"V", "M", "1", "-", "8", "0", "8", "0", ".", "l", "o", "c", "a", "l", "h", "o", "s", "t">>,
      ok |-> TRUE],
     [host |-> <<"m", "y", "v", "m", "-", "-", "8", "0", "8", "0", ".", "l", "o", "c", "a", "l", "h", "o", "s", "t">>,
      ok |-> TRUE],
     [host |-> <<"a", "-", "8", ".", "b", "-", "9", ".", "t">>,
      ok |-> TRUE],
     [host |-> <<"a", "-", "1", "2", "3", "4", "5", "6", ".", "t">>,
      ok |-> FALSE],
     [host |-> <<"l", "o", "c", "a", "l", "h", "o", "s", "t", ":", "8", "0", "8", "0">>,
      ok |-> FALSE],
     [host |-> <<"m", "y", "v", "m", ".", "l", "o", "c", "a", "l", "h", "o", "s", "t">>,
      ok |-> FALSE],
     [host |-> <<"m", "y", "v", "m", "-", "a", "b", "c", ".", "l", "o", "c", "a", "l", "h", "o", "s", "t">>,
      ok |-> FALSE],
     [host |-> <<"-", "8", "0", "8", "0", ".", "l", "o", "c", "a", "l", "h", "o", "s", "t">>,
      ok |-> FALSE],
     [host |-> <<"m", "y", "v", "m", "-", "8", "0", "8", "0">>,
      ok |-> FALSE],
     [host |-> <<"8", "0", "8", "0", ".", "l", "o", "c", "a", "l", "h", "o", "s", "t">>,
      ok |-> FALSE],
     [host |-> <<"m", "y", "v", "m", "-", "8", "0", "8", "0", ".">>,
      ok |-> FALSE],
     [host |-> <<>>,
      ok |-> FALSE],
     [host |-> <<"m", "y", "v", "m", ".", "8", "0", "8", "0", ".", "l", "o", "c", "a", "l", "h", "o", "s", "t">>,
      ok |-> FALSE],
     [host |-> <<"m", "y", "v", "m", "-", "8", "0", "8", "0", "-", "e", "x", "t", "r", "a", ".", "l", "o", "c", "a", "l", "h", "o", "s", "t">>,
      ok |-> FALSE],
     [host |-> <<".", "m", "y", "v", "m", "-", "8", "0", "8", "0", ".", "l", "o", "c", "a", "l", "h", "o", "s", "t">>,
      ok |-> FALSE],
     [host |-> <<"a", "-", "8", ".", "t", ":">>,
      ok |-> FALSE],
     [host |-> <<"a", "-", "8", ".", "t", ":", "x">>,
      ok |-> FALSE],
     [host |-> <<"a", "-", "8", ".", "t", "_">>,
      ok |-> FALSE]}

\* the parsing workload: each of these hosts, and a host of the known VM
ParseInputs == {<<c.host, NoCred>> : c \in ParseCases} \cup {<<hostVM, NoCred>>}

(***************************************************************************)
(* The request handler, one action per suspension point.                   *)
(***************************************************************************)
\* Middleware, and handleVMRequest up to the Info call
Arrive(r, host, cred) ==
    /\ req[r].pc = "new"
    /\ LET ph == parseHost(host)
           au == checkAgentAuth(cred, authToken)
           in == [req[r] EXCEPT !.host = host, !.cred = cred]
       IN  req' = [req EXCEPT ![r] =
              IF ~ph.ok
              THEN [in EXCEPT !.pc = "done", !.resp = "next",
                              !.passed = [host |-> host, cred |-> cred]]
              ELSE IF NeedsAuth(ph.port, authToken) /\ ~au.ok
              THEN [in EXCEPT !.pc = "done", !.resp = "401",
                              !.vm = ph.vmName, !.port = ph.port,
                              !.held = ph.vmName \in waking]
              ELSE [in EXCEPT !.pc = "info",
                              !.vm = ph.vmName, !.port = ph.port,
                              !.held = ph.vmName \in waking,
                              !.cookie = IF NeedsAuth(ph.port, authToken)
                                         THEN au.cookie ELSE "",
                              !.setCookie =
                                  IF NeedsAuth(ph.port, authToken) /\ au.cookie # ""
                                  THEN <<AgentCookie(au.cookie)>> ELSE << >>]]
    /\ serial' = (serial \/ \E q \in Req : req[q].pc = "done")
    /\ UNCHANGED <<authToken, waking, task, engine, starts, stopped>>
    /\ UNCHANGED outsideRouter

\* handleVMRequest: r.mp.Info(vmName) and the switch on its result
InfoStep(r) ==
    /\ req[r].pc = "info"
    /\ LET info == Info(req[r].vm)
           d == Dispatch(info)
           in == [req[r] EXCEPT !.asked = TRUE, !.info = info]
       IN  req' = [req EXCEPT ![r] =
              IF d = "wake" THEN [in EXCEPT !.pc = "wake"]
              ELSE IF d = "proxy"
              THEN [in EXCEPT !.pc = "proxy",
                              !.target = ProxyTarget(info, req[r].port)]
              ELSE [in EXCEPT !.pc = "done", !.resp = d]]
    /\ UNCHANGED <<authToken, waking, task, engine, starts, stopped, serial>>
    /\ UNCHANGED outsideRouter

\* handleWakeOnRequest: take the ticket or find it taken; serve the loading page
WakeStep(r) ==
    /\ req[r].pc = "wake"
    /\ LET ls == LoadOrStore(waking, req[r].vm)
       IN  /\ waking' = ls.map
           /\ req' = [req EXCEPT ![r].pc = "done", ![r].resp = "page",
                                 ![r].launched = ~ls.loaded]
           /\ task' = IF ls.loaded THEN task
                      ELSE [task EXCEPT ![r].pc = "spawned"]
    /\ UNCHANGED <<authToken, engine, starts, stopped, serial>>
    /\ UNCHANGED outsideRouter

\* proxyRequest: the Director rewrites the outgoing request and the reverse
\* proxy dials the upstream; 502 on transport failure
ProxyStep(r) ==
    /\ req[r].pc = "proxy"
    /\ req' = [req EXCEPT ![r].pc = "done",
                          ![r].resp = IF Reachable(req[r].vm, req[r].target[1])
                                      THEN "proxied" ELSE "502",
                          ![r].upstream =
                              Director(Outgoing(req[r].host),
                                       TargetHost(req[r].target[1], req[r].target[2]))]
    /\ UNCHANGED <<authToken, waking, task, engine, starts, stopped, serial>>
    /\ UNCHANGED outsideRouter

(***************************************************************************)
(* The background goroutine of handleWakeOnRequest.                        *)
(***************************************************************************)
\* r.mp.Start(vmName) is called
TaskStartCall(r) ==
    /\ task[r].pc = "spawned"
    /\ task' = [task EXCEPT ![r].pc = "inStart"]
    /\ starts' = starts + 1
    /\ UNCHANGED <<authToken, waking, req, engine, stopped, serial>>
    /\ UNCHANGED outsideRouter

\* the ticket deleted on the success path only, not deferred
AfterStartNoDefer(ok) == IF ok THEN "wait" ELSE "done"

\* what the goroutine does once Start has returned
AfterStart(ok) == IF ok THEN "wait" ELSE "defer"

\* r.mp.Start returns: nil once the VM runs, or an error at any time
TaskStartReturn(r, ok) ==
    /\ task[r].pc = "inStart"
    /\ ok => engine[req[r].vm].state = StateRunning
    /\ task' = [task EXCEPT ![r].pc = AfterStart(ok), ![r].failed = ~ok]
    /\ UNCHANGED <<authToken, waking, req, engine, starts, stopped, serial>>
    /\ UNCHANGED outsideRouter

\* waitForPort's verdict on one iteration: Info, then a TCP dial to the first IPv4
PortReady(vm) ==
    LET info == Info(vm)
    IN  ~info.err /\ Len(info.ips) > 0 /\ Reachable(vm, info.ips[1])

\* waitForPort: an iteration before the deadline; it returns true once the port
\* accepts, and sleeps and tries again otherwise
TaskPoll(r) ==
    /\ task[r].pc = "wait"
    /\ task' = [task EXCEPT ![r].pc =
                   IF PortReady(req[r].vm) THEN "defer" ELSE "wait"]
    /\ UNCHANGED <<authToken, waking, req, engine, starts, stopped, serial>>
    /\ UNCHANGED outsideRouter

\* waitForPort: the 90 s deadline has passed; it returns false
TaskTimeout(r) ==
    /\ task[r].pc = "wait"
    /\ task' = [task EXCEPT ![r].pc = "defer"]
    /\ UNCHANGED <<authToken, waking, req, engine, starts, stopped, serial>>
    /\ UNCHANGED outsideRouter

\* defer r.waking.Delete(vmName)
TaskRelease(r) ==
    /\ task[r].pc = "defer"
    /\ waking' = waking \ {req[r].vm}
    /\ task' = [task EXCEPT ![r].pc = "done"]
    /\ UNCHANGED <<authToken, req, engine, starts, stopped, serial>>
    /\ UNCHANGED outsideRouter

(***************************************************************************)
(* The engine and the world around the router.                             *)
(***************************************************************************)
StartInFlight(vm) == \E r \in Req : task[r].pc = "inStart" /\ req[r].vm = vm

\* the engine begins to boot a VM it was told to start
EngineBoot(vm) ==
    /\ engine[vm].state \in {StateStopped, StateSuspended}
    /\ StartInFlight(vm)
    /\ engine' = [engine EXCEPT ![vm].state = StateStarting]
    /\ UNCHANGED <<authToken, waking, req, task, starts, stopped, serial>>
    /\ UNCHANGED outsideRouter

\* the VM runs; its address may be known at once or only later
EngineUp(vm, ips) ==
    /\ engine[vm].state = StateStarting
    /\ engine' = [engine EXCEPT ![vm].state = StateRunning, ![vm].ips = ips]
    /\ UNCHANGED <<authToken, waking, req, task, starts, stopped, serial>>
    /\ UNCHANGED outsideRouter

EngineAssignIP(vm, ips) ==
    /\ engine[vm].state = StateRunning
    /\ engine[vm].ips = << >>
    /\ engine' = [engine EXCEPT ![vm].ips = ips]
    /\ UNCHANGED <<authToken, waking, req, task, starts, stopped, serial>>
    /\ UNCHANGED outsideRouter

\* the service inside the VM begins to listen
ServiceUp(vm) ==
    /\ engine[vm].state = StateRunning
    /\ engine[vm].ips # << >>
    /\ ~engine[vm].up
    /\ engine' = [engine EXCEPT ![vm].up = TRUE]
    /\ UNCHANGED <<authToken, waking, req, task, starts, stopped, serial>>
    /\ UNCHANGED outsideRouter

\* the watchdog or a user stops or suspends a running VM
ExternalStop(vm, s) ==
    /\ engine[vm].state = StateRunning
    /\ engine' = [engine EXCEPT ![vm] = [state |-> s, ips |-> << >>, up |-> FALSE]]
    /\ stopped' = TRUE
    /\ UNCHANGED <<authToken, waking, req, task, starts, serial>>
    /\ UNCHANGED outsideRouter

\* SetAuthToken, called once while the daemon is assembled
SetAuthToken(token) ==
    /\ authToken = ""
    /\ \A r \in Req : req[r].pc = "new"
    /\ authToken' = token
    /\ UNCHANGED <<waking, req, task, engine, starts, stopped, serial>>
    /\ UNCHANGED outsideRouter

RouterNext(slots, inputs, iplists) ==
    \/ \E r \in slots, i \in inputs : Arrive(r, i[1], i[2])
    \/ \E r \in slots : InfoStep(r)
    \/ \E r \in slots : WakeStep(r)
    \/ \E r \in slots : ProxyStep(r)
    \/ \E r \in slots : TaskStartCall(r)
    \/ \E r \in slots, ok \in BOOLEAN : TaskStartReturn(r, ok)
    \/ \E r \in slots : TaskPoll(r)
    \/ \E r \in slots : TaskTimeout(r)
    \/ \E r \in slots : TaskRelease(r)
    \/ \E vm \in EngineVMs : EngineBoot(vm)
    \/ \E vm \in EngineVMs, ips \in iplists \cup {<< >>} : EngineUp(vm, ips)
    \/ \E vm \in EngineVMs, ips \in iplists : EngineAssignIP(vm, ips)
    \/ \E vm \in EngineVMs : ServiceUp(vm)
    \/ \E vm \in EngineVMs, s \in {StateStopped, StateSuspended} : ExternalStop(vm, s)

(***************************************************************************)
(* The tunnel manager (internal/tunnel).                                   *)
(***************************************************************************)
Callers == 1..NumCallers

TunIds == 1..MaxTunnels

HostPorts == 1..NumPorts

\* the VM port the tunnels of this workload lead to
tunnelVMPort == 8080

NoTunnel ==
    [made |-> FALSE, hostPort |-> 0, vmName |-> << >>, vmPort |-> 0, vmIP |-> "",
     open |-> FALSE, lsnCloses |-> 0, doneCloses |-> 0, taken |-> 0, serve |-> "none"]

\* a caller between calls; op and res are its last call and what it returned
Idle ==
    [pc |-> "idle", op |-> "none", vm |-> << >>, port |-> 0, ip |-> "",
     t |-> 0, res |-> ""]

Returned(op, res) == [Idle EXCEPT !.op = op, !.res = res]

TunnelInit ==
    /\ tunnels = [p \in HostPorts |-> 0]
    /\ tun = [t \in TunIds |-> NoTunnel]
    /\ caller = [c \in Callers |-> Idle]

\* the ports some open listener is bound to
BoundPorts == {tun[t].hostPort : t \in {u \in TunIds : tun[u].open}}

\* the Tunnel built with the VM port in the HostPort field
NewTunnelVMPort(hostPort, vmName, vmPort, vmIP) ==
    [made |-> TRUE, hostPort |-> vmPort, vmName |-> vmName, vmPort |-> vmPort,
     vmIP |-> vmIP, open |-> TRUE, lsnCloses |-> 0, doneCloses |-> 0,
     taken |-> 0, serve |-> "loop"]

\* Create: the Tunnel built around the fresh listener, its serve loop started
NewTunnel(hostPort, vmName, vmPort, vmIP) ==
    [made |-> TRUE, hostPort |-> hostPort, vmName |-> vmName, vmPort |-> vmPort,
     vmIP |-> vmIP, open |-> TRUE, lsnCloses |-> 0, doneCloses |-> 0,
     taken |-> 0, serve |-> "loop"]

\* Create's checks with the state check left out
CreateCheckNoState(info) ==
    IF info.err THEN "failed to get VM info"
    ELSE IF Len(info.ips) = 0 THEN "VM has no IP address"
    ELSE ""

\* Create: the checks on the Info result ("": passed)
CreateCheck(info) ==
    IF info.err THEN "failed to get VM info"
    ELSE IF info.state # StateRunning THEN "VM is not running"
    ELSE IF Len(info.ips) = 0 THEN "VM has no IP address"
    ELSE ""

\* Delete's lookup that leaves the record in the map
DeleteLookupKeep(m, hostPort) == [ok |-> m[hostPort] # 0, t |-> m[hostPort], map |-> m]

\* Delete: look the record up and remove it, in one critical section
DeleteLookup(m, hostPort) ==
    [ok  |-> m[hostPort] # 0,
     t   |-> m[hostPort],
     map |-> [m EXCEPT ![hostPort] = 0]]

\* a caller enters Create(vmName, vmPort)
CallCreate(c, vm) ==
    /\ caller[c].pc = "idle"
    /\ caller' = [caller EXCEPT ![c] =
          [Idle EXCEPT !.pc = "c_info", !.op = "create", !.vm = vm,
                       !.port = tunnelVMPort]]
    /\ UNCHANGED <<tunnels, tun>>
    /\ UNCHANGED outsideTunnels

\* Create: m.mp.Info(vmName) and the checks on it
CreateInfo(c) ==
    /\ caller[c].pc = "c_info"
    /\ LET info == Info(caller[c].vm)
           e == CreateCheck(info)
       IN  caller' = [caller EXCEPT ![c] =
              IF e = "" THEN [@ EXCEPT !.pc = "c_listen", !.ip = info.ips[1]]
              ELSE Returned("create", e)]
    /\ UNCHANGED <<tunnels, tun>>
    /\ UNCHANGED outsideTunnels

\* Create: net.Listen on port 0 fails (no port is free)
CreateListenFail(c) ==
    /\ caller[c].pc = "c_listen"
    /\ HostPorts \ BoundPorts = {}
    /\ caller' = [caller EXCEPT ![c] = Returned("create", "failed to create listener")]
    /\ UNCHANGED <<tunnels, tun>>
    /\ UNCHANGED outsideTunnels

\* Create: net.Listen binds a free port of the kernel's choice; the Tunnel is
\* built and its serve loop started
CreateListen(c, p, t) ==
    /\ caller[c].pc = "c_listen"
    /\ p \in HostPorts \ BoundPorts
    /\ ~tun[t].made
    /\ \A u \in TunIds : u < t => tun[u].made
    /\ tun' = [tun EXCEPT ![t] =
                  NewTunnel(p, caller[c].vm, caller[c].port, caller[c].ip)]
    /\ caller' = [caller EXCEPT ![c].pc = "c_insert", ![c].t = t, ![c].port = p]
    /\ UNCHANGED tunnels
    /\ UNCHANGED outsideTunnels

\* Create: m.tunnels[hostPort] = tunnel, under the write lock; return the tunnel
CreateInsert(c) ==
    /\ caller[c].pc = "c_insert"
    /\ tunnels' = [tunnels EXCEPT ![caller[c].port] = caller[c].t]
    /\ caller' = [caller EXCEPT ![c] = Returned("create", "ok")]
    /\ UNCHANGED tun
    /\ UNCHANGED outsideTunnels

\* a caller enters Delete(hostPort)
CallDelete(c, p) ==
    /\ caller[c].pc = "idle"
    /\ caller' = [caller EXCEPT ![c] =
          [Idle EXCEPT !.pc = "d_lookup", !.op = "delete", !.port = p]]
    /\ UNCHANGED <<tunnels, tun>>
    /\ UNCHANGED outsideTunnels

\* Delete: the critical section; "tunnel not found" when there is no record
DeleteLookupStep(c) ==
    /\ caller[c].pc = "d_lookup"
    /\ LET f == DeleteLookup(tunnels, caller[c].port)
       IN  /\ tunnels' = IF f.ok THEN f.map ELSE tunnels
           /\ tun' = IF f.ok THEN [tun EXCEPT ![f.t].taken = @ + 1] ELSE tun
           /\ caller' = [caller EXCEPT ![c] =
                  IF f.ok THEN [@ EXCEPT !.pc = "d_done", !.t = f.t]
                  ELSE Returned("delete", "tunnel not found")]
    /\ UNCHANGED outsideTunnels

\* Delete: close(tunnel.done)
DeleteCloseDone(c) ==
    /\ caller[c].pc = "d_done"
    /\ tun' = [tun EXCEPT ![caller[c].t].doneCloses = @ + 1]
    /\ caller' = [caller EXCEPT ![c].pc = "d_listener"]
    /\ UNCHANGED tunnels
    /\ UNCHANGED outsideTunnels

\* Delete: tunnel.listener.Close(); return nil
DeleteCloseListener(c) ==
    /\ caller[c].pc = "d_listener"
    /\ tun' = [tun EXCEPT ![caller[c].t].open = FALSE,
                          ![caller[c].t].lsnCloses = @ + 1]
    /\ caller' = [caller EXCEPT ![c] = Returned("delete", "ok")]
    /\ UNCHANGED tunnels
    /\ UNCHANGED outsideTunnels

\* List: a copy of the map's records, under the read lock
List(c) ==
    /\ caller[c].pc = "idle"
    /\ caller' = [caller EXCEPT ![c] = Returned("list", "ok")]
    /\ UNCHANGED <<tunnels, tun>>
    /\ UNCHANGED outsideTunnels

\* a user starts a VM from outside the daemon's router
UserStart(vm) ==
    /\ engine[vm].state \in {StateStopped, StateSuspended}
    /\ engine' = [engine EXCEPT ![vm].state = StateStarting]
    /\ UNCHANGED <<authToken, waking, req, task, starts, stopped, serial>>
    /\ UNCHANGED outsideRouter

TunnelOps ==
    \/ \E c \in Callers, vm \in EngineVMs \cup {<<"g">>} : CallCreate(c, vm)
    \/ \E c \in Callers : CreateInfo(c)
    \/ \E c \in Callers : CreateListenFail(c)
    \/ \E c \in Callers, p \in HostPorts, t \in TunIds : CreateListen(c, p, t)
    \/ \E c \in Callers : CreateInsert(c)
    \/ \E c \in Callers, p \in HostPorts : CallDelete(c, p)
    \/ \E c \in Callers : DeleteLookupStep(c)
    \/ \E c \in Callers : DeleteCloseDone(c)
    \/ \E c \in Callers : DeleteCloseListener(c)
    \/ \E c \in Callers : List(c)

EngineEnv ==
    \/ \E vm \in EngineVMs : UserStart(vm)
    \/ \E vm \in EngineVMs, ips \in OneIP \cup {<< >>} : EngineUp(vm, ips)
    \/ \E vm \in EngineVMs, ips \in OneIP : EngineAssignIP(vm, ips)

(***************************************************************************)
(* A tunneled connection: Tunnel.handleConnection and its two copy tasks.  *)
(***************************************************************************)
\* the two connections of the handler
Sides == {"client", "target"}

\* the two copy goroutines: up is io.Copy(target, client), down the reverse
Dirs == {"up", "down"}

Src(d) == IF d = "up" THEN "client" ELSE "target"

Dst(d) == IF d = "up" THEN "target" ELSE "client"

OtherDir(d) == IF d = "up" THEN "down" ELSE "up"

\* the byte values of the workload
Bytes == {"x", "y"}

NoCopy == [pc |-> "none", rd |-> 0, chunk |-> << >>, err |-> FALSE]

ConnInit ==
    /\ hconn = [pc |-> "idle", dialed |-> FALSE]
    /\ sock = [s \in Sides |-> [wr |-> FALSE, open |-> FALSE]]
    /\ peer = [s \in Sides |-> [up |-> FALSE, sent |-> << >>, fin |-> FALSE, gone |-> FALSE]]
    /\ copy = [d \in Dirs |-> NoCopy]
    /\ recv = [s \in Sides |-> << >>]

\* serve: Accept returns a client connection; go t.handleConnection(conn)
Accept ==
    /\ hconn.pc = "idle"
    /\ hconn' = [hconn EXCEPT !.pc = "dial"]
    /\ sock' = [sock EXCEPT !["client"] = [wr |-> TRUE, open |-> TRUE]]
    /\ peer' = [peer EXCEPT !["client"].up = TRUE]
    /\ UNCHANGED <<copy, recv>>
    /\ UNCHANGED outsideConn

\* handleConnection: net.Dial fails; return, and the deferred client.Close() runs
DialFail ==
    /\ hconn.pc = "dial"
    /\ hconn' = [hconn EXCEPT !.pc = "closeClient"]
    /\ UNCHANGED <<sock, peer, copy, recv>>
    /\ UNCHANGED outsideConn

\* handleConnection: net.Dial succeeds; wg.Add(2) and both goroutines start
DialOK ==
    /\ hconn.pc = "dial"
    /\ hconn' = [pc |-> "wait", dialed |-> TRUE]
    /\ sock' = [sock EXCEPT !["target"] = [wr |-> TRUE, open |-> TRUE]]
    /\ peer' = [peer EXCEPT !["target"].up = TRUE]
    /\ copy' = [d \in Dirs |-> [NoCopy EXCEPT !.pc = "read"]]
    /\ UNCHANGED recv
    /\ UNCHANGED outsideConn

\* a far end writes one byte on its connection
PeerSend(s, b) ==
    /\ peer[s].up /\ ~peer[s].fin /\ ~peer[s].gone
    /\ Len(peer[s].sent) < MaxBytes
    /\ peer' = [peer EXCEPT ![s].sent = Append(@, b)]
    /\ UNCHANGED <<hconn, sock, copy, recv>>
    /\ UNCHANGED outsideConn

\* a far end closes its write side: the daemon reads EOF after the last byte
PeerFin(s) ==
    /\ peer[s].up /\ ~peer[s].fin /\ ~peer[s].gone
    /\ peer' = [peer EXCEPT ![s].fin = TRUE]
    /\ UNCHANGED <<hconn, sock, copy, recv>>
    /\ UNCHANGED outsideConn

\* a far end goes away (reset): reads from it and writes to it fail
PeerAbort(s) ==
    /\ peer[s].up /\ ~peer[s].gone
    /\ peer' = [peer EXCEPT ![s].gone = TRUE]
    /\ UNCHANGED <<hconn, sock, copy, recv>>
    /\ UNCHANGED outsideConn

\* io.Copy: Read returns the next k bytes the source has written
CopyRead(d, k) ==
    /\ copy[d].pc = "read"
    /\ ~peer[Src(d)].gone
    /\ k >= 1 /\ copy[d].rd + k <= Len(peer[Src(d)].sent)
    /\ copy' = [copy EXCEPT ![d].pc = "write",
                            ![d].chunk = SubSeq(peer[Src(d)].sent,
                                                copy[d].rd + 1, copy[d].rd + k),
                            ![d].rd = @ + k]
    /\ UNCHANGED <<hconn, sock, peer, recv>>
    /\ UNCHANGED outsideConn

\* io.Copy: Read returns EOF (the source sent FIN and all its bytes are read),
\* or an error (the source is gone); io.Copy returns
CopyEnd(d) ==
    /\ copy[d].pc = "read"
    /\ \/ /\ peer[Src(d)].gone
          /\ copy' = [copy EXCEPT ![d].pc = "closeWrite", ![d].err = TRUE]
       \/ /\ ~peer[Src(d)].gone
          /\ peer[Src(d)].fin
          /\ copy[d].rd = Len(peer[Src(d)].sent)
          /\ copy' = [copy EXCEPT ![d].pc = "closeWrite"]
    /\ UNCHANGED <<hconn, sock, peer, recv>>
    /\ UNCHANGED outsideConn

\* the chunk placed in front of what was delivered before
DeliverFirst(got, chunk) == chunk \o got

\* io.Copy: Write hands the chunk to the destination, after what it got before
Deliver(got, chunk) == got \o chunk

\* io.Copy: Write of the chunk in hand; on a write error io.Copy returns
CopyWrite(d) ==
    /\ copy[d].pc = "write"
    /\ IF sock[Dst(d)].wr /\ ~peer[Dst(d)].gone
       THEN /\ recv' = [recv EXCEPT ![Dst(d)] = Deliver(@, copy[d].chunk)]
            /\ copy' = [copy EXCEPT ![d].pc = "read", ![d].chunk = << >>]
       ELSE /\ copy' = [copy EXCEPT ![d].pc = "closeWrite", ![d].chunk = << >>,
                                    ![d].err = TRUE]
            /\ UNCHANGED recv
    /\ UNCHANGED <<hconn, sock, peer>>
    /\ UNCHANGED outsideConn

\* CloseWrite on the connection the goroutine read from
CloseWriteSrc(d) == Src(d)

\* the connection a copy goroutine half-closes when its io.Copy has returned
CloseWriteSide(d) == Dst(d)

\* the goroutine after io.Copy: CloseWrite on the destination; wg.Done
CopyCloseWrite(d) ==
    /\ copy[d].pc = "closeWrite"
    /\ sock' = [sock EXCEPT ![CloseWriteSide(d)].wr = FALSE]
    /\ copy' = [copy EXCEPT ![d].pc = "done"]
    /\ UNCHANGED <<hconn, peer, recv>>
    /\ UNCHANGED outsideConn

\* wg.Wait returns once both goroutines are done; the deferred target.Close()
WaitAndCloseTarget ==
    /\ hconn.pc = "wait"
    /\ \A d \in Dirs : copy[d].pc = "done"
    /\ hconn' = [hconn EXCEPT !.pc = "closeClient"]
    /\ sock' = [sock EXCEPT !["target"] = [wr |-> FALSE, open |-> FALSE]]
    /\ UNCHANGED <<peer, copy, recv>>
    /\ UNCHANGED outsideConn

\* the deferred client.Close()
CloseClient ==
    /\ hconn.pc = "closeClient"
    /\ hconn' = [hconn EXCEPT !.pc = "done"]
    /\ sock' = [sock EXCEPT !["client"] = [wr |-> FALSE, open |-> FALSE]]
    /\ UNCHANGED <<peer, copy, recv>>
    /\ UNCHANGED outsideConn

ConnNext ==
    \/ Accept
    \/ DialFail
    \/ DialOK
    \/ \E s \in Sides, b \in Bytes : PeerSend(s, b)
    \/ \E s \in Sides : PeerFin(s)
    \/ \E s \in Sides : PeerAbort(s)
    \/ \E d \in Dirs, k \in 1..BufLen : CopyRead(d, k)
    \/ \E d \in Dirs : CopyEnd(d)
    \/ \E d \in Dirs : CopyWrite(d)
    \/ \E d \in Dirs : CopyCloseWrite(d)
    \/ WaitAndCloseTarget
    \/ CloseClient

(***************************************************************************)
(* Tunnel.serve: the accept loop of a tunnel, and the connections it       *)
(* hands to handleConnection.                                              *)
(***************************************************************************)
\* a loop that never finds done closed
DoneNever(t) == FALSE

\* <-t.done is ready
Done(t) == tun[t].doneCloses > 0

\* what the tunnel manager and the connection handler leave alone
outsideServe ==
    <<routerVars, watchdogVars, shellVars, applierVars, serverVars, cloudVars>>

\* serve: the select at the top of the loop; return when done is closed,
\* else set the deadline and call Accept
ServeSelect(t) ==
    /\ tun[t].serve = "loop"
    /\ tun' = [tun EXCEPT ![t].serve = IF Done(t) THEN "exited" ELSE "accept"]
    /\ UNCHANGED <<tunnels, caller, connVars>>
    /\ UNCHANGED outsideServe

\* serve: Accept returns a client connection of the open listener;
\* go t.handleConnection(conn), and the loop goes on
ServeAccept(t) ==
    /\ tun[t].serve = "accept"
    /\ tun[t].open
    /\ hconn.pc = "idle"
    /\ tun' = [tun EXCEPT ![t].serve = "loop"]
    /\ hconn' = [hconn EXCEPT !.pc = "dial"]
    /\ sock' = [sock EXCEPT !["client"] = [wr |-> TRUE, open |-> TRUE]]
    /\ peer' = [peer EXCEPT !["client"].up = TRUE]
    /\ UNCHANGED <<tunnels, caller, copy, recv>>
    /\ UNCHANGED outsideServe

\* serve: Accept returns an error, the deadline of one second or the
\* listener closed
ServeAcceptError(t) ==
    /\ tun[t].serve = "accept"
    /\ tun' = [tun EXCEPT ![t].serve = "error"]
    /\ UNCHANGED <<tunnels, caller, connVars>>
    /\ UNCHANGED outsideServe

\* serve: after the error, return when done is closed, else continue
ServeCheck(t) ==
    /\ tun[t].serve = "error"
    /\ tun' = [tun EXCEPT ![t].serve = IF Done(t) THEN "exited" ELSE "loop"]
    /\ UNCHANGED <<tunnels, caller, connVars>>
    /\ UNCHANGED outsideServe

\* a step of the serve goroutine that needs no client
ServeStep(t) == ServeSelect(t) \/ ServeAcceptError(t) \/ ServeCheck(t)

\* the callers that delete tunnels while a connection drains
NumDeleters == 1

\* concurrent callers of the agent listener manager
NumMgrCallers == 2

\* agent listeners made in one run
MaxListeners == 2

\* Delete, the accept loop, and connections that end by a close or a reset
\* of either far end
DrainNext ==
    \/ \E c \in 1..NumDeleters, p \in HostPorts : CallDelete(c, p)
    \/ \E c \in 1..NumDeleters : DeleteLookupStep(c)
    \/ \E c \in 1..NumDeleters : DeleteCloseDone(c)
    \/ \E c \in 1..NumDeleters : DeleteCloseListener(c)
    \/ \E t \in TunIds : ServeSelect(t)
    \/ \E t \in TunIds : ServeAccept(t)
    \/ \E t \in TunIds : ServeAcceptError(t)
    \/ \E t \in TunIds : ServeCheck(t)
    \/ DialFail
    \/ DialOK
    \/ \E s \in Sides : PeerFin(s)
    \/ \E s \in Sides : PeerAbort(s)
    \/ \E d \in Dirs : CopyEnd(d)
    \/ \E d \in Dirs : CopyCloseWrite(d)
    \/ WaitAndCloseTarget
    \/ CloseClient

(***************************************************************************)
(* The activity watchdog (internal/watchdog).                              *)
(*                                                                         *)
(* A uint64 is four 16-bit limbs, least significant first, so that sums    *)
(* wrap at 2^64 as the code's do.  Time is counted in ticks of one minute; *)
(* PTY idle time is in seconds; load is in hundredths.                     *)
(***************************************************************************)
loadAverageThreshold == 10

networkNoiseBytes == 100000

\* the uint64 of a small number
U64(n) == <<n % 65536, (n \div 65536) % 65536, 0, 0>>

MaxUint64 == <<65535, 65535, 65535, 65535>>

\* a < b on uint64
LessU64(a, b) ==
    \E i \in 1..4 : a[i] < b[i] /\ \A j \in (i + 1)..4 : a[j] = b[j]

\* a - b on uint64, for a >= b
SubU64(a, b) ==
    LET d1 == a[1] - b[1]
        w1 == IF d1 < 0 THEN 1 ELSE 0
        d2 == a[2] - b[2] - w1
        w2 == IF d2 < 0 THEN 1 ELSE 0
        d3 == a[3] - b[3] - w2
        w3 == IF d3 < 0 THEN 1 ELSE 0
        d4 == a[4] - b[4] - w3
    IN  <<d1 % 65536, d2 % 65536, d3 % 65536, d4 % 65536>>

\* a + b on uint64: the carry out of the top limb is lost
AddU64(a, b) ==
    LET s1 == a[1] + b[1]
        s2 == a[2] + b[2] + (s1 \div 65536)
        s3 == a[3] + b[3] + (s2 \div 65536)
        s4 == a[4] + b[4] + (s3 \div 65536)
    IN  <<s1 % 65536, s2 % 65536, s3 % 65536, s4 % 65536>>

\* absDiff
absDiff(a, b) == IF LessU64(b, a) THEN SubU64(a, b) ELSE SubU64(b, a)

\* a uint64 compared with a small number: u > n
ExceedsU64(u, n) ==
    \/ u[4] # 0 \/ u[3] # 0
    \/ u[2] > n \div 65536
    \/ (u[2] = n \div 65536 /\ u[1] > n % 65536)

\* the watched VMs, in the order List returns them
WatchedVMs == <<"alpha", "beta">>

Watched == {WatchedVMs[i] : i \in 1..Len(WatchedVMs)}

\* w.timeout in seconds: int(w.timeout.Seconds())
TimeoutSeconds == TimeoutMins * 60

\* activityStats as getActivityStats returns them
Stats(rx, tx, pty, load) ==
    [RxBytes |-> rx, TxBytes |-> tx, PTYIdleSeconds |-> pty, LoadAverage1Min |-> load]

idleStats == Stats(U64(0), U64(0), -1, 1)

\* the samples of the workload
Samples ==
    {idleStats,
     Stats(U64(0), U64(0), TimeoutSeconds - 1, 1),
     Stats(U64(0), U64(0), TimeoutSeconds, 1),
     Stats(U64(0), U64(0), -1, loadAverageThreshold),
     Stats(U64(0), U64(0), -1, loadAverageThreshold + 1),
     Stats(U64(networkNoiseBytes), U64(0), -1, 1),
     Stats(U64(networkNoiseBytes), U64(1), -1, 1),
     Stats(MaxUint64, U64(1), -1, 1)}

\* the checkpoint file inside a VM: absent, not JSON, or JSON with a
\* timestamp that parses as RFC 3339 or does not
NoFile == [kind |-> "absent", tsok |-> FALSE, ts |-> 0, rx |-> U64(0), tx |-> U64(0)]

Garbage == [NoFile EXCEPT !.kind = "garbage"]

BadTimestamp == [NoFile EXCEPT !.kind = "json"]

\* writeCheckpoint: the file it leaves when its Exec succeeds
NewCheckpoint(t, rx, tx) == [kind |-> "json", tsok |-> TRUE, ts |-> t, rx |-> rx, tx |-> tx]

\* readCheckpoint: Exec cat, then json.Unmarshal
readCheckpoint(file, execOK) ==
    IF ~execOK \/ file.kind # "json"
    THEN [err |-> TRUE, tsok |-> FALSE, ts |-> 0, rx |-> U64(0), tx |-> U64(0)]
    ELSE [err |-> FALSE, tsok |-> file.tsok, ts |-> file.ts, rx |-> file.rx, tx |-> file.tx]

\* hasImmediateActivity
hasImmediateActivity(stats) ==
    \/ stats.PTYIdleSeconds >= 0 /\ stats.PTYIdleSeconds < TimeoutSeconds
    \/ stats.LoadAverage1Min > loadAverageThreshold

\* checkVM: totalDelta
totalDelta(stats, prev) ==
    AddU64(absDiff(stats.RxBytes, prev.rx), absDiff(stats.TxBytes, prev.tx))

\* checkVM: what it does, given what its Exec calls returned:
\* "skip" (return at once), "write" (writeCheckpoint), "stop", or "none"
checkVM(statsOK, stats, prev, t) ==
    IF ~statsOK THEN "skip"
    ELSE IF hasImmediateActivity(stats) THEN "write"
    ELSE IF prev.err THEN "write"
    ELSE IF ~prev.tsok THEN "write"
    ELSE IF ExceedsU64(totalDelta(stats, prev), networkNoiseBytes) THEN "write"
    ELSE IF t - prev.ts > TimeoutMins THEN "stop"
    ELSE "none"

\* watchdog.New: the goroutine waits for its first tick and holds nothing
New == [pc |-> "idle", todo |-> << >>, skipped |-> {}]

NoCheck == [v |-> "", statsOK |-> FALSE, readOK |-> FALSE, stats |-> idleStats, act |-> "skip"]

\* both VMs run and neither has a checkpoint yet
WatchdogInit ==
    /\ wd = New
    /\ guest = [v \in Watched |-> [state |-> StateRunning, file |-> NoFile]]
    /\ now = 0
    /\ stops = [v \in Watched |-> 0]
    /\ stopping = [v \in Watched |-> 0]
    /\ last = NoCheck
    /\ steady = [v \in Watched |-> TRUE]
    /\ restartedAt = 0
    /\ stopFailed = [v \in Watched |-> FALSE]

\* checkAllVMs: the Running VMs of the list, in the list's order
RunningOf(list, g) == SelectSeq(list, LAMBDA v : g[v].state = StateRunning)

\* run: the ticker fires; checkAllVMs calls List, which fails or returns the VMs
Tick(listOK) ==
    /\ wd.pc = "idle"
    /\ now < MaxTicks
    /\ now' = now + 1
    /\ wd' = IF listOK
             THEN [pc |-> "loop", todo |-> RunningOf(WatchedVMs, guest), skipped |-> {}]
             ELSE New
    /\ steady' = IF listOK THEN steady ELSE [v \in Watched |-> FALSE]
    /\ stopFailed' = [v \in Watched |-> stopFailed[v] \/ stopping[v] > 0]
    /\ UNCHANGED <<guest, stops, stopping, last, restartedAt>>
    /\ UNCHANGED outsideWatchdog

\* the loop gives up at the first VM whose check failed
AfterCheckAbort(todo, act) == IF act = "skip" THEN << >> ELSE Tail(todo)

\* checkAllVMs: the loop goes on to the next VM, whatever checkVM did
AfterCheck(todo, act) == Tail(todo)

\* checkAllVMs: checkVM on the next VM of the list. statsOK, readOK and writeOK
\* say which of the Exec calls succeed; a VM that no longer runs fails them
CheckVM(statsOK, stats, readOK, writeOK) ==
    /\ wd.pc = "loop"
    /\ wd.todo # << >>
    /\ LET v == Head(wd.todo)
           up == guest[v].state = StateRunning
           prev == readCheckpoint(guest[v].file, readOK /\ up)
           act == checkVM(statsOK /\ up, stats, prev, now)
       IN  /\ guest' = IF act = "write" /\ writeOK /\ up
                       THEN [guest EXCEPT ![v].file =
                                NewCheckpoint(now, stats.RxBytes, stats.TxBytes)]
                       ELSE guest
           /\ stops' = IF act = "stop" THEN [stops EXCEPT ![v] = @ + 1] ELSE stops
           /\ stopping' = IF act = "stop" THEN [stopping EXCEPT ![v] = @ + 1]
                          ELSE stopping
           /\ last' = [v |-> v, statsOK |-> statsOK /\ up, readOK |-> readOK /\ up,
                       stats |-> stats, act |-> act]
           /\ steady' = [steady EXCEPT ![v] =
                            @ /\ statsOK /\ up /\ stats = idleStats
                              /\ (act = "write" => writeOK)
                              /\ (guest[v].file.kind = "json" => ~prev.err)]
           /\ wd' = [wd EXCEPT !.todo = AfterCheck(wd.todo, act),
                               !.skipped = IF act = "skip" THEN @ \cup {v} ELSE @]
    /\ UNCHANGED <<now, restartedAt, stopFailed>>
    /\ UNCHANGED outsideWatchdog

\* the goroutine between ticks with the locals of the last tick kept
EndOfLoopKeep(w) == [w EXCEPT !.pc = "idle"]

\* checkAllVMs returns: its locals are gone and run waits for the next tick
EndOfLoop(w) == New

\* checkAllVMs: the loop is over
EndOfTick ==
    /\ wd.pc = "loop"
    /\ wd.todo = << >>
    /\ wd' = EndOfLoop(wd)
    /\ UNCHANGED <<guest, now, stops, stopping, last, steady, restartedAt, stopFailed>>
    /\ UNCHANGED outsideWatchdog

\* a Stop that returns no error and leaves the VM running
AfterStopNoEffect(g, v, ok) == g

\* Multipass.Stop: the VM is stopped unless Stop returns an error
AfterStop(g, v, ok) == IF ok THEN [g EXCEPT ![v].state = StateStopped] ELSE g

\* the goroutine of checkVM: w.mp.Stop returns; its error is dropped
StopReturn(v, ok) ==
    /\ stopping[v] > 0
    /\ stopping' = [stopping EXCEPT ![v] = @ - 1]
    /\ guest' = AfterStop(guest, v, ok)
    /\ stopFailed' = [stopFailed EXCEPT ![v] = @ \/ ~ok]
    /\ UNCHANGED <<wd, now, stops, last, steady, restartedAt>>
    /\ UNCHANGED outsideWatchdog

\* something inside the VM removes or overwrites the checkpoint file
FileChange(v, file) ==
    /\ guest[v].state = StateRunning
    /\ guest[v].file.kind = "json" /\ guest[v].file.tsok
    /\ guest' = [guest EXCEPT ![v].file = file]
    /\ steady' = [steady EXCEPT ![v] = FALSE]
    /\ UNCHANGED <<wd, now, stops, stopping, last, restartedAt, stopFailed>>
    /\ UNCHANGED outsideWatchdog

\* the daemon is stopped and started again between two ticks: Watchdog.Stop,
\* then watchdog.New
Restart ==
    /\ wd.pc = "idle"
    /\ now > 0
    /\ restartedAt = 0
    /\ wd' = New
    /\ restartedAt' = now
    /\ UNCHANGED <<guest, now, stops, stopping, last, steady, stopFailed>>
    /\ UNCHANGED outsideWatchdog

WatchdogNext(samples, files) ==
    \/ \E listOK \in BOOLEAN : Tick(listOK)
    \/ \E statsOK, readOK, writeOK \in BOOLEAN, stats \in samples :
          CheckVM(statsOK, stats, readOK, writeOK)
    \/ EndOfTick
    \/ \E v \in Watched, ok \in BOOLEAN : StopReturn(v, ok)
    \/ \E v \in Watched, file \in files : FileChange(v, file)
    \/ Restart

(***************************************************************************)
(* The shell session: ShellHandler.Handle upgrades the request, starts the *)
(* shell on a PTY and runs three tasks: the heartbeat, the PTY reader and  *)
(* the client reader (Handle itself).  A message's bytes are a sequence of *)
(* lexical pieces (a brace, a comma, a member, a plain byte); time is      *)
(* counted in ping periods.                                                *)
(***************************************************************************)
pongWait == 60

pingPeriod == 30

initialCols == 80

initialRows == 24

\* uint16
MaxUint16 == 65535

TextMessage == "text"

BinaryMessage == "binary"

\* the pieces of a message's bytes
Piece(k, key, str, num) == [k |-> k, key |-> key, str |-> str, num |-> num]

LBrace == Piece("{", "", "", 0)

RBrace == Piece("}", "", "", 0)

Comma == Piece(",", "", "", 0)

Raw(c) == Piece("raw", "", c, 0)

\* "key":"str"
StrMember(key, str) == Piece("strmember", key, str, 0)

\* "key":num
NumMember(key, num) == Piece("nummember", key, "", num)

IsMember(p) == p.k \in {"strmember", "nummember"}

\* a JSON object: members between braces, separated by commas
ValidObject(data) ==
    /\ Len(data) >= 2
    /\ data[1] = LBrace
    /\ data[Len(data)] = RBrace
    /\ Len(data) = 2 \/ Len(data) % 2 = 1
    /\ \A i \in 2..(Len(data) - 1) :
          IF i % 2 = 0 THEN IsMember(data[i]) ELSE data[i] = Comma

\* a member the decoder cannot store in ResizeMessage's field of its name
Mismatch(p) ==
    \/ p.key = "type" /\ p.k # "strmember"
    \/ p.key \in {"rows", "cols"}
       /\ (p.k # "nummember" \/ p.num < 0 \/ p.num > MaxUint16)

\* the last member of the object with this name (0: none)
LastMember(data, key) ==
    LET at == {i \in 1..Len(data) : IsMember(data[i]) /\ data[i].key = key}
    IN  IF at = {} THEN 0 ELSE CHOOSE i \in at : \A j \in at : j <= i

\* json.Unmarshal(data, &resize): the error, and the fields of resize
Unmarshal(data) ==
    IF ~ValidObject(data)
    THEN [err |-> TRUE, Type |-> "", Rows |-> 0, Cols |-> 0]
    ELSE LET bad == \E i \in 1..Len(data) : IsMember(data[i]) /\ Mismatch(data[i])
             t == LastMember(data, "type")
             r == LastMember(data, "rows")
             c == LastMember(data, "cols")
         IN  [err |-> bad,
              Type |-> IF t # 0 /\ ~Mismatch(data[t]) THEN data[t].str ELSE "",
              Rows |-> IF r # 0 /\ ~Mismatch(data[r]) THEN data[r].num ELSE 0,
              Cols |-> IF c # 0 /\ ~Mismatch(data[c]) THEN data[c].num ELSE 0]

\* the test without a look at the frame's type
IsResizeAnyFrame(msg) ==
    /\ Len(msg.data) > 0
    /\ msg.data[1] = LBrace
    /\ ~Unmarshal(msg.data).err
    /\ Unmarshal(msg.data).Type = "resize"

\* Handle's test for a resize message
IsResize(msg) ==
    /\ msg.type = TextMessage
    /\ Len(msg.data) > 0
    /\ msg.data[1] = LBrace
    /\ ~Unmarshal(msg.data).err
    /\ Unmarshal(msg.data).Type = "resize"

Message(type, data) == [type |-> type, data |-> data]

resizeBytes == <<LBrace, StrMember("type", "resize"), Comma, NumMember("rows", 40),
                 Comma, NumMember("cols", 120), RBrace>>

\* {"type":"resize","rows":40,"cols":120} as a text frame
ResizeMsg == Message(TextMessage, resizeBytes)

\* the bytes ls as a binary frame
KeysMsg == Message(BinaryMessage, <<Raw("l"), Raw("s")>>)

\* the messages a client sends in the session workload
SessionMsgs == {ResizeMsg, KeysMsg}

\* the messages of the resize workload: the resize message; the same bytes as
\* a binary frame; after a space; cut short; with another type; with rows
\* beyond uint16; with no rows and cols; plain keys as a text frame; an empty
\* text frame
ResizeWorkload ==
    {ResizeMsg,
     Message(BinaryMessage, resizeBytes),
     Message(TextMessage, <<Raw(" ")>> \o resizeBytes),
     Message(TextMessage, <<LBrace, StrMember("type", "resize")>>),
     Message(TextMessage, <<LBrace, StrMember("type", "input"), Comma,
                            NumMember("rows", 40), RBrace>>),
     Message(TextMessage, <<LBrace, StrMember("type", "resize"), Comma,
                            NumMember("rows", 70000), Comma,
                            NumMember("cols", 120), RBrace>>),
     Message(TextMessage, <<LBrace, StrMember("type", "resize"), RBrace>>),
     Message(TextMessage, <<Raw("l"), Raw("s")>>),
     Message(TextMessage, << >>)}

\* ping periods without a pong after which the read deadline has passed
PeriodsToDeadline == pongWait \div pingPeriod

\* the request's query without cols and rows, or with values that are not
\* positive numbers
NoSize == [cols |-> 0, rows |-> 0]

\* the cols and rows of the request's query
Queries == {NoSize, [cols |-> 100, rows |-> 30]}

\* Handle: the initial size, as the uint16 that StartWithSize is given
InitialSize(q, default) == (IF q > 0 THEN q ELSE default) % (MaxUint16 + 1)

\* the cleanup steps, in the order Handle's deferred calls run them
Cleanup == <<"ptmx.Close", "Process.Kill", "Wait", "conn.Close">>

\* strings.IndexByte and strings.LastIndexByte, counted from 1 (0: absent)
IndexByte(s, c) ==
    LET at == {k \in 1..Len(s) : s[k] = c}
    IN  IF at = {} THEN 0 ELSE CHOOSE k \in at : \A j \in at : k <= j

LastIndexByte(s, c) ==
    LET at == {k \in 1..Len(s) : s[k] = c}
    IN  IF at = {} THEN 0 ELSE CHOOSE k \in at : \A j \in at : k >= j

\* net/url getScheme: letters, then letters, digits, +, - or . up to the
\* first colon; a colon in front is an error; anything else is no scheme
getScheme(rawURL) ==
    LET c == IndexByte(rawURL, ":")
    IN  IF c = 1 THEN [err |-> TRUE, scheme |-> << >>, rest |-> << >>]
        ELSE IF /\ c > 1
                /\ rawURL[1] \in Alpha
                /\ AllIn(SubSeq(rawURL, 1, c - 1), AlNum \cup {"+", "-", "."})
        THEN [err |-> FALSE, scheme |-> SubSeq(rawURL, 1, c - 1),
              rest |-> SubSeq(rawURL, c + 1, Len(rawURL))]
        ELSE [err |-> FALSE, scheme |-> << >>, rest |-> rawURL]

\* net/url validOptionalPort: empty, or a colon and digits
validOptionalPort(port) ==
    port = << >> \/ (port[1] = ":" /\ AllIn(Tail(port), Digit))

\* net/url parseHost, as far as it fails: a bracket that is not closed, or a
\* port that is not a number
validAuthority(host) ==
    IF host # << >> /\ host[1] = "["
    THEN LET e == LastIndexByte(host, "]")
         IN  e # 0 /\ validOptionalPort(SubSeq(host, e + 1, Len(host)))
    ELSE LET c == LastIndexByte(host, ":")
         IN  c = 0 \/ validOptionalPort(SubSeq(host, c, Len(host)))

\* url.Parse of a string without query, fragment and user: the error and
\* the Host of the URL
urlParse(rawURL) ==
    LET sc == getScheme(rawURL)
        rest == sc.rest
        slashes == Len(rest) >= 2 /\ rest[1] = "/" /\ rest[2] = "/"
        three == Len(rest) >= 3 /\ rest[3] = "/"
        after == SubSeq(rest, 3, Len(rest))
        cut == IndexByte(after, "/")
        authority == IF cut = 0 THEN after ELSE SubSeq(after, 1, cut - 1)
        segment == IF IndexByte(rest, "/") = 0 THEN rest
                   ELSE SubSeq(rest, 1, IndexByte(rest, "/") - 1)
    IN  IF sc.err THEN [err |-> TRUE, Host |-> << >>]
        ELSE IF slashes /\ (sc.scheme # << >> \/ ~three)
        THEN IF validAuthority(authority) THEN [err |-> FALSE, Host |-> authority]
             ELSE [err |-> TRUE, Host |-> << >>]
        ELSE IF sc.scheme = << >> /\ IndexByte(segment, ":") # 0
        THEN [err |-> TRUE, Host |-> << >>]
        ELSE [err |-> FALSE, Host |-> << >>]

\* URL.Hostname: the Host without a port, and without the brackets of an
\* IPv6 literal
Hostname(host) ==
    LET colon == IndexByte(host, ":")
        close == IndexByte(host, "]")
    IN  IF colon = 0 THEN host
        ELSE IF close # 0
        THEN LET h == SubSeq(host, 1, close - 1)
             IN  IF h # << >> /\ h[1] = "[" THEN Tail(h) ELSE h
        ELSE SubSeq(host, 1, colon - 1)

\* net.SplitHostPort: the error and the host; an address without a port is
\* an error
SplitHostPort(hostport) ==
    LET i == LastIndexByte(hostport, ":")
        end == IndexByte(hostport, "]")
        bad == [err |-> TRUE, host |-> << >>]
    IN  IF i = 0 THEN bad
        ELSE IF hostport[1] = "["
        THEN IF end = 0 \/ end = Len(hostport) \/ end + 1 # i THEN bad
             ELSE [err |-> FALSE, host |-> SubSeq(hostport, 2, end - 1)]
        ELSE LET host == SubSeq(hostport, 1, i - 1)
             IN  IF \E k \in 1..Len(host) : host[k] \in {":", "[", "]"} THEN bad
                 ELSE [err |-> FALSE, host |-> host]

localhost == <<"l", "o", "c", "a", "l", "h", "o", "s", "t">>

\* a shell request: its Origin header (<< >>: none), its Host, and whether
\* it is a well-formed WebSocket handshake
ShellRequest(origin, host, handshake) ==
    [origin |-> origin, host |-> host, handshake |-> handshake]

\* checkOrigin
checkOrigin(r) ==
    IF r.origin = << >> THEN TRUE
    ELSE LET u == urlParse(r.origin)
             host == Hostname(u.Host)
             sp == SplitHostPort(r.host)
             reqHost == IF sp.err THEN r.host ELSE sp.host
         IN  IF u.err THEN FALSE
             ELSE IF host \in {localhost, <<"1", "2", "7", ".", "0", ".", "0", ".", "1">>, <<":", ":", "1">>}
             THEN TRUE
             ELSE host = reqHost

\* an upgrader that checks no origin
checkOriginAny(r) == TRUE

\* the check before the upgrade without the test of the state
EnsureExists(info) == IF info.err THEN "404" ELSE ""

\* Handle, "Ensure VM exists and is running": the status it answers with
\* ("": it goes on)
EnsureRunning(info) ==
    IF info.err THEN "404"
    ELSE IF info.state # StateRunning THEN "400"
    ELSE ""

\* upgrader.Upgrade: 400 for a request that is no handshake, 403 when
\* CheckOrigin refuses, else the protocol is switched
Upgrade(r) ==
    IF ~r.handshake THEN "400"
    ELSE IF ~checkOrigin(r) THEN "403"
    ELSE "101"

\* the origins and hosts of TestCheckOrigin, and more: IPv6 literals, an
\* origin with a path, origins that are not URLs; with each, whether the
\* origin is a URL, its hostname and the hostname of the Host
OriginCases ==
    {[origin |-> <<>>,
      host |-> <<"l", "o", "c", "a", "l", "h", "o", "s", "t", ":", "8", "0", "8", "0">>,
      parses |-> FALSE, originName |-> <<>>,
      hostName |-> <<"l", "o", "c", "a", "l", "h", "o", "s", "t">>],
     [origin |-> <<"h", "t", "t", "p", ":", "/", "/", "l", "o", "c", "a", "l", "h", "o", "s", "t", ":", "3", "0", "0", "0">>,
      host |-> <<"e", "x", "a", "m", "p", "l", "e", ".", "c", "o", "m", ":", "8", "0", "8", "0">>,
      parses |-> TRUE, originName |-> <<"l", "o", "c", "a", "l", "h", "o", "s", "t">>,
      hostName |-> <<"e", "x", "a", "m", "p", "l", "e", ".", "c", "o", "m">>],
     [origin |-> <<"h", "t", "t", "p", ":", "/", "/", "l", "o", "c", "a", "l", "h", "o", "s", "t">>,
      host |-> <<"e", "x", "a", "m", "p", "l", "e", ".", "c", "o", "m", ":", "8", "0", "8", "0">>,
      parses |-> TRUE, originName |-> <<"l", "o", "c", "a", "l", "h", "o", "s", "t">>,
      hostName |-> <<"e", "x", "a", "m", "p", "l", "e", ".", "c", "o", "m">>],
     [origin |-> <<"h", "t", "t", "p", ":", "/", "/", "1", "2", "7", ".", "0", ".", "0", ".", "1", ":", "3", "0", "0", "0">>,
      host |-> <<"e", "x", "a", "m", "p", "l", "e", ".", "c", "o", "m", ":", "8", "0", "8", "0">>,
      parses |-> TRUE, originName |-> <<"1", "2", "7", ".", "0", ".", "0", ".", "1">>,
      hostName |-> <<"e", "x", "a", "m", "p", "l", "e", ".", "c", "o", "m">>],
     [origin |-> <<"h", "t", "t", "p", ":", "/", "/", "[", ":", ":", "1", "]", ":", "3", "0", "0", "0">>,
      host |-> <<"e", "x", "a", "m", "p", "l", "e", ".", "c", "o", "m", ":", "8", "0", "8", "0">>,
      parses |-> TRUE, originName |-> <<":", ":", "1">>,
      hostName |-> <<"e", "x", "a", "m", "p", "l", "e", ".", "c", "o", "m">>],
     [origin |-> <<"h", "t", "t", "p", ":", "/", "/", "d", "a", "b", "b", "i", ".", "l", "o", "c", "a", "l", ":", "8", "0", "8", "0">>,
      host |-> <<"d", "a", "b", "b", "i", ".", "l", "o", "c", "a", "l", ":", "8", "0", "8", "0">>,
      parses |-> TRUE, originName |-> <<"d", "a", "b", "b", "i", ".", "l", "o", "c", "a", "l">>,
      hostName |-> <<"d", "a", "b", "b", "i", ".", "l", "o", "c", "a", "l">>],
     [origin |-> <<"h", "t", "t", "p", ":", "/", "/", "d", "a", "b", "b", "i", ".", "l", "o", "c", "a", "l", ":", "3", "0", "0", "0">>,
      host |-> <<"d", "a", "b", "b", "i", ".", "l", "o", "c", "a", "l", ":", "8", "0", "8", "0">>,
      parses |-> TRUE, originName |-> <<"d", "a", "b", "b", "i", ".", "l", "o", "c", "a", "l">>,
      hostName |-> <<"d", "a", "b", "b", "i", ".", "l", "o", "c", "a", "l">>],
     [origin |-> <<"h", "t", "t", "p", ":", "/", "/", "m", "y", "a", "p", "p", ".", "e", "x", "a", "m", "p", "l", "e", ".", "c", "o", "m">>,
      host |-> <<"m", "y", "a", "p", "p", ".", "e", "x", "a", "m", "p", "l", "e", ".", "c", "o", "m">>,
      parses |-> TRUE, originName |-> <<"m", "y", "a", "p", "p", ".", "e", "x", "a", "m", "p", "l", "e", ".", "c", "o", "m">>,
      hostName |-> <<"m", "y", "a", "p", "p", ".", "e", "x", "a", "m", "p", "l", "e", ".", "c", "o", "m">>],
     [origin |-> <<"h", "t", "t", "p", "s", ":", "/", "/", "l", "o", "c", "a", "l", "h", "o", "s", "t", ":", "4", "4", "3">>,
      host |-> <<"e", "x", "a", "m", "p", "l", "e", ".", "c", "o", "m">>,
      parses |-> TRUE, originName |-> <<"l", "o", "c", "a", "l", "h", "o", "s", "t">>,
      hostName |-> <<"e", "x", "a", "m", "p", "l", "e", ".", "c", "o", "m">>],
     [origin |-> <<"h", "t", "t", "p", ":", "/", "/", "[", "f", "e", "8", "0", ":", ":", "1", "]", ":", "3", "0", "0", "0">>,
      host |-> <<"[", "f", "e", "8", "0", ":", ":", "1", "]", ":", "8", "0", "8", "0">>,
      parses |-> TRUE, originName |-> <<"f", "e", "8", "0", ":", ":", "1">>,
      hostName |-> <<"f", "e", "8", "0", ":", ":", "1">>],
     [origin |-> <<"h", "t", "t", "p", ":", "/", "/", "[", "f", "e", "8", "0", ":", ":", "1", "]">>,
      host |-> <<"[", "f", "e", "8", "0", ":", ":", "1", "]">>,
      parses |-> TRUE, originName |-> <<"f", "e", "8", "0", ":", ":", "1">>,
      hostName |-> <<"f", "e", "8", "0", ":", ":", "1">>],
     [origin |-> <<"h", "t", "t", "p", ":", "/", "/", "e", "v", "i", "l", ".", "c", "o", "m">>,
      host |-> <<"l", "o", "c", "a", "l", "h", "o", "s", "t", ":", "8", "0", "8", "0">>,
      parses |-> TRUE, originName |-> <<"e", "v", "i", "l", ".", "c", "o", "m">>,
      hostName |-> <<"l", "o", "c", "a", "l", "h", "o", "s", "t">>],
     [origin |-> <<"h", "t", "t", "p", ":", "/", "/", "e", "v", "i", "l", ".", "c", "o", "m", ":", "3", "0", "0", "0">>,
      host |-> <<"l", "o", "c", "a", "l", "h", "o", "s", "t", ":", "8", "0", "8", "0">>,
      parses |-> TRUE, originName |-> <<"e", "v", "i", "l", ".", "c", "o", "m">>,
      hostName |-> <<"l", "o", "c", "a", "l", "h", "o", "s", "t">>],
     [origin |-> <<"h", "t", "t", "p", ":", "/", "/", "s", "u", "b", ".", "l", "o", "c", "a", "l", "h", "o", "s", "t">>,
      host |-> <<"l", "o", "c", "a", "l", "h", "o", "s", "t", ":", "8", "0", "8", "0">>,
      parses |-> TRUE, originName |-> <<"s", "u", "b", ".", "l", "o", "c", "a", "l", "h", "o", "s", "t">>,
      hostName |-> <<"l", "o", "c", "a", "l", "h", "o", "s", "t">>],
     [origin |-> <<"h", "t", "t", "p", ":", "/", "/", "n", "o", "t", "l", "o", "c", "a", "l", "h", "o", "s", "t", ".", "c", "o", "m">>,
      host |-> <<"l", "o", "c", "a", "l", "h", "o", "s", "t", ":", "8", "0", "8", "0">>,
      parses |-> TRUE, originName |-> <<"n", "o", "t", "l", "o", "c", "a", "l", "h", "o", "s", "t", ".", "c", "o", "m">>,
      hostName |-> <<"l", "o", "c", "a", "l", "h", "o", "s", "t">>],
     [origin |-> <<"h", "t", "t", "p", ":", "/", "/", "e", "v", "i", "l", "-", "l", "o", "c", "a", "l", "h", "o", "s", "t">>,
      host |-> <<"l", "o", "c", "a", "l", "h", "o", "s", "t", ":", "8", "0", "8", "0">>,
      parses |-> TRUE, originName |-> <<"e", "v", "i", "l", "-", "l", "o", "c", "a", "l", "h", "o", "s", "t">>,
      hostName |-> <<"l", "o", "c", "a", "l", "h", "o", "s", "t">>],
     [origin |-> <<"n", "o", "t", "-", "a", "-", "u", "r", "l">>,
      host |-> <<"l", "o", "c", "a", "l", "h", "o", "s", "t", ":", "8", "0", "8", "0">>,
      parses |-> TRUE, originName |-> <<>>,
      hostName |-> <<"l", "o", "c", "a", "l", "h", "o", "s", "t">>],
     [origin |-> <<"h", "t", "t", "p", ":", "/", "/">>,
      host |-> <<"l", "o", "c", "a", "l", "h", "o", "s", "t", ":", "8", "0", "8", "0">>,
      parses |-> TRUE, originName |-> <<>>,
      hostName |-> <<"l", "o", "c", "a", "l", "h", "o", "s", "t">>],
     [origin |-> <<"h", "t", "t", "p", ":", "/", "/", "l", "o", "c", "a", "l", "h", "o", "s", "t", ".", "a", "t", "t", "a", "c", "k", "e", "r", ".", "c", "o", "m">>,
      host |-> <<"l", "o", "c", "a", "l", "h", "o", "s", "t", ":", "8", "0", "8", "0">>,
      parses |-> TRUE, originName |-> <<"l", "o", "c", "a", "l", "h", "o", "s", "t", ".", "a", "t", "t", "a", "c", "k", "e", "r", ".", "c", "o", "m">>,
      hostName |-> <<"l", "o", "c", "a", "l", "h", "o", "s", "t">>],
     [origin |-> <<"h", "t", "t", "p", ":", "/", "/", "o", "t", "h", "e", "r", ".", "e", "x", "a", "m", "p", "l", "e", ".", "c", "o", "m">>,
      host |-> <<"m", "y", "a", "p", "p", ".", "e", "x", "a", "m", "p", "l", "e", ".", "c", "o", "m", ":", "8", "0", "8", "0">>,
      parses |-> TRUE, originName |-> <<"o", "t", "h", "e", "r", ".", "e", "x", "a", "m", "p", "l", "e", ".", "c", "o", "m">>,
      hostName |-> <<"m", "y", "a", "p", "p", ".", "e", "x", "a", "m", "p", "l", "e", ".", "c", "o", "m">>],
     [origin |-> <<"h", "t", "t", "p", ":", "/", "/", "1", "2", "7", ".", "0", ".", "0", ".", "2">>,
      host |-> <<"l", "o", "c", "a", "l", "h", "o", "s", "t", ":", "8", "0", "8", "0">>,
      parses |-> TRUE, originName |-> <<"1", "2", "7", ".", "0", ".", "0", ".", "2">>,
      hostName |-> <<"l", "o", "c", "a", "l", "h", "o", "s", "t">>],
     [origin |-> <<"h", "t", "t", "p", ":", "/", "/", "[", ":", ":", "1">>,
      host |-> <<"l", "o", "c", "a", "l", "h", "o", "s", "t", ":", "8", "0", "8", "0">>,
      parses |-> FALSE, originName |-> <<>>,
      hostName |-> <<"l", "o", "c", "a", "l", "h", "o", "s", "t">>],
     [origin |-> <<"h", "t", "t", "p", ":", "/", "/", "e", "v", "i", "l", ".", "c", "o", "m", ":", "x">>,
      host |-> <<"e", "v", "i", "l", ".", "c", "o", "m">>,
      parses |-> FALSE, originName |-> <<>>,
      hostName |-> <<"e", "v", "i", "l", ".", "c", "o", "m">>],
     [origin |-> <<"h", "t", "t", "p", ":", "/", "/", "e", "v", "i", "l", ".", "c", "o", "m", "/", "l", "o", "c", "a", "l", "h", "o", "s", "t">>,
      host |-> <<"l", "o", "c", "a", "l", "h", "o", "s", "t", ":", "8", "0", "8", "0">>,
      parses |-> TRUE, originName |-> <<"e", "v", "i", "l", ".", "c", "o", "m">>,
      hostName |-> <<"l", "o", "c", "a", "l", "h", "o", "s", "t">>]}

\* what Info reports of a VM that runs, and of one that is stopped
RunningInfo == [err |-> FALSE, state |-> StateRunning, ips |-> <<"ip1">>]

StoppedInfo == [err |-> FALSE, state |-> StateStopped, ips |-> << >>]

\* a client without an Origin header (curl, the CLI), with and without a
\* well-formed handshake
SessionRequests ==
    {ShellRequest(<< >>, <<"l", "o", "c", "a", "l", "h", "o", "s", "t", ":", "8", "0", "8", "0">>, h) : h \in BOOLEAN}

ShellInit ==
    /\ shell = [pc |-> "new", data |-> << >>]
    /\ heartbeat = "none"
    /\ ptyReader = "none"
    /\ writeMu = "none"
    /\ done = [closes |-> 0, calls |-> 0]
    /\ closeOnce = FALSE
    /\ ptmx = [started |-> FALSE, open |-> FALSE, rows |-> 0, cols |-> 0,
               input |-> << >>, output |-> FALSE]
    /\ cmd = [state |-> "none", reaped |-> FALSE]
    /\ ws = [open |-> FALSE, writers |-> {}, sincePong |-> 0, tick |-> FALSE,
             status |-> "", info |-> NoInfo,
             request |-> ShellRequest(<< >>, << >>, FALSE)]
    /\ browser = [gone |-> FALSE, answers |-> TRUE, pingIn |-> FALSE,
                  pongOut |-> FALSE, sent |-> 0]
    /\ inbox = << >>
    /\ handled = << >>
    /\ teardown = << >>

\* a connection without a read deadline
NoDeadline(periods) == FALSE

\* the read deadline, pongWait after the last pong, has passed
DeadlinePassed(periods) == periods >= PeriodsToDeadline

\* <-done is ready
Closed(d) == d.closes > 0

\* close(done) on every call
closeDoneUnguarded(d, once) == [closes |-> d.closes + 1, calls |-> d.calls + 1]

\* closeDone: close(done) under closeOnce
closeDone(d, once) ==
    [closes |-> IF once THEN d.closes ELSE d.closes + 1, calls |-> d.calls + 1]

\* a lock that never blocks
CanLockAlways(holder) == TRUE

\* writeMu.Lock returns
CanLock(holder) == holder = "none"

\* Handle up to the upgrade: the VM must run and the upgrade succeed
Handle(info, r) ==
    /\ shell.pc = "new"
    /\ LET refusal == EnsureRunning(info)
           status == IF refusal # "" THEN refusal ELSE Upgrade(r)
       IN  /\ shell' = [shell EXCEPT !.pc = IF status = "101" THEN "start" ELSE "refused"]
           /\ ws' = [ws EXCEPT !.open = (status = "101"), !.status = status,
                               !.info = info, !.request = r]
    /\ UNCHANGED <<heartbeat, ptyReader, writeMu, done, closeOnce, ptmx, cmd,
                   browser, inbox, handled, teardown>>
    /\ UNCHANGED outsideShell

\* pty.StartWithSize succeeds: the cleanup is deferred, the read deadline set
\* and the two goroutines started
StartWithSize(q) ==
    /\ shell.pc = "start"
    /\ ptmx' = [ptmx EXCEPT !.started = TRUE, !.open = TRUE,
                            !.rows = InitialSize(q.rows, initialRows),
                            !.cols = InitialSize(q.cols, initialCols)]
    /\ cmd' = [cmd EXCEPT !.state = "running"]
    /\ heartbeat' = "select"
    /\ ptyReader' = "top"
    /\ shell' = [shell EXCEPT !.pc = "loop"]
    /\ UNCHANGED <<writeMu, done, closeOnce, ws, browser, inbox, handled, teardown>>
    /\ UNCHANGED outsideShell

\* pty.StartWithSize fails: Handle begins to write the failure text
StartFail ==
    /\ shell.pc = "start"
    /\ shell' = [shell EXCEPT !.pc = "failWrite"]
    /\ ws' = [ws EXCEPT !.writers = @ \cup {"handler"}]
    /\ UNCHANGED <<heartbeat, ptyReader, writeMu, done, closeOnce, ptmx, cmd,
                   browser, inbox, handled, teardown>>
    /\ UNCHANGED outsideShell

\* the failure text is written and Handle returns
FailWritten ==
    /\ shell.pc = "failWrite"
    /\ shell' = [shell EXCEPT !.pc = "closeConn"]
    /\ ws' = [ws EXCEPT !.writers = @ \ {"handler"}]
    /\ UNCHANGED <<heartbeat, ptyReader, writeMu, done, closeOnce, ptmx, cmd,
                   browser, inbox, handled, teardown>>
    /\ UNCHANGED outsideShell

\* the main loop's select
LoopTop ==
    /\ shell.pc = "loop"
    /\ shell' = [shell EXCEPT !.pc = IF Closed(done) THEN "closePty" ELSE "read"]
    /\ UNCHANGED <<heartbeat, ptyReader, writeMu, done, closeOnce, ptmx, cmd, ws,
                   browser, inbox, handled, teardown>>
    /\ UNCHANGED outsideShell

\* ReadMessage returns the client's next message: a resize message sets the
\* window size, any other goes to ptmx.Write
ReadMessage ==
    /\ shell.pc = "read"
    /\ inbox # << >>
    /\ ~DeadlinePassed(ws.sincePong)
    /\ LET msg == Head(inbox)
           resize == Unmarshal(msg.data)
       IN  /\ handled' = Append(handled, msg)
           /\ inbox' = Tail(inbox)
           /\ IF IsResize(msg)
              THEN /\ ptmx' = [ptmx EXCEPT !.rows = resize.Rows, !.cols = resize.Cols]
                   /\ shell' = [shell EXCEPT !.pc = "loop"]
              ELSE /\ ptmx' = ptmx
                   /\ shell' = [pc |-> "write", data |-> msg.data]
    /\ UNCHANGED <<heartbeat, ptyReader, writeMu, done, closeOnce, cmd, ws,
                   browser, teardown>>
    /\ UNCHANGED outsideShell

\* ReadMessage, inside: a pong arrives and the pong handler moves the deadline
ReadPong ==
    /\ shell.pc = "read"
    /\ browser.pongOut
    /\ ~DeadlinePassed(ws.sincePong)
    /\ browser' = [browser EXCEPT !.pongOut = FALSE]
    /\ ws' = [ws EXCEPT !.sincePong = 0]
    /\ UNCHANGED <<shell, heartbeat, ptyReader, writeMu, done, closeOnce, ptmx, cmd,
                   inbox, handled, teardown>>
    /\ UNCHANGED outsideShell

\* ReadMessage fails: the client is gone or the read deadline has passed
ReadError ==
    /\ shell.pc = "read"
    /\ browser.gone \/ DeadlinePassed(ws.sincePong)
    /\ done' = closeDone(done, closeOnce)
    /\ closeOnce' = TRUE
    /\ shell' = [shell EXCEPT !.pc = "closePty"]
    /\ UNCHANGED <<heartbeat, ptyReader, writeMu, ptmx, cmd, ws, browser, inbox,
                   handled, teardown>>
    /\ UNCHANGED outsideShell

\* ptmx.Write: the bytes reach the shell, or the write fails because the
\* shell has exited
PtyWrite ==
    /\ shell.pc = "write"
    /\ IF cmd.state = "running"
       THEN /\ ptmx' = [ptmx EXCEPT !.input = @ \o shell.data]
            /\ shell' = [pc |-> "loop", data |-> << >>]
            /\ UNCHANGED <<done, closeOnce>>
       ELSE /\ done' = closeDone(done, closeOnce)
            /\ closeOnce' = TRUE
            /\ shell' = [shell EXCEPT !.pc = "closePty"]
            /\ ptmx' = ptmx
    /\ UNCHANGED <<heartbeat, ptyReader, writeMu, cmd, ws, browser, inbox, handled,
                   teardown>>
    /\ UNCHANGED outsideShell

\* the deferred cleanup: ptmx.Close
ClosePty ==
    /\ shell.pc = "closePty"
    /\ ptmx' = [ptmx EXCEPT !.open = FALSE]
    /\ teardown' = Append(teardown, Cleanup[1])
    /\ shell' = [shell EXCEPT !.pc = "kill"]
    /\ UNCHANGED <<heartbeat, ptyReader, writeMu, done, closeOnce, cmd, ws, browser,
                   inbox, handled>>
    /\ UNCHANGED outsideShell

\* the deferred cleanup: cmd.Process.Kill
Kill ==
    /\ shell.pc = "kill"
    /\ cmd' = [cmd EXCEPT !.state = IF @ = "running" THEN "killed" ELSE @]
    /\ teardown' = Append(teardown, Cleanup[2])
    /\ shell' = [shell EXCEPT !.pc = "wait"]
    /\ UNCHANGED <<heartbeat, ptyReader, writeMu, done, closeOnce, ptmx, ws, browser,
                   inbox, handled>>
    /\ UNCHANGED outsideShell

\* the deferred cleanup: cmd.Wait returns once the child has ended
Wait ==
    /\ shell.pc = "wait"
    /\ cmd.state # "running"
    /\ cmd' = [cmd EXCEPT !.reaped = TRUE]
    /\ teardown' = Append(teardown, Cleanup[3])
    /\ shell' = [shell EXCEPT !.pc = "closeConn"]
    /\ UNCHANGED <<heartbeat, ptyReader, writeMu, done, closeOnce, ptmx, ws, browser,
                   inbox, handled>>
    /\ UNCHANGED outsideShell

\* the deferred conn.Close, the last to run
CloseConn ==
    /\ shell.pc = "closeConn"
    /\ ws' = [ws EXCEPT !.open = FALSE]
    /\ teardown' = Append(teardown, Cleanup[4])
    /\ shell' = [shell EXCEPT !.pc = "ended"]
    /\ UNCHANGED <<heartbeat, ptyReader, writeMu, done, closeOnce, ptmx, cmd, browser,
                   inbox, handled>>
    /\ UNCHANGED outsideShell

\* the heartbeat's select: done is closed
HeartbeatDone ==
    /\ heartbeat = "select"
    /\ Closed(done)
    /\ heartbeat' = "exited"
    /\ UNCHANGED <<shell, ptyReader, writeMu, done, closeOnce, ptmx, cmd, ws, browser,
                   inbox, handled, teardown>>
    /\ UNCHANGED outsideShell

\* the heartbeat's select: the ticker has fired
HeartbeatTick ==
    /\ heartbeat = "select"
    /\ ws.tick
    /\ ws' = [ws EXCEPT !.tick = FALSE]
    /\ heartbeat' = "lock"
    /\ UNCHANGED <<shell, ptyReader, writeMu, done, closeOnce, ptmx, cmd, browser,
                   inbox, handled, teardown>>
    /\ UNCHANGED outsideShell

\* the heartbeat takes writeMu and begins to write the ping
HeartbeatLock ==
    /\ heartbeat = "lock"
    /\ CanLock(writeMu)
    /\ writeMu' = "heartbeat"
    /\ ws' = [ws EXCEPT !.writers = @ \cup {"heartbeat"}]
    /\ heartbeat' = "write"
    /\ UNCHANGED <<shell, ptyReader, done, closeOnce, ptmx, cmd, browser, inbox,
                   handled, teardown>>
    /\ UNCHANGED outsideShell

\* the ping's WriteMessage returns and the heartbeat unlocks writeMu
HeartbeatWritten(ok) ==
    /\ heartbeat = "write"
    /\ IF ok THEN ws.open ELSE ~ws.open \/ browser.gone
    /\ writeMu' = "none"
    /\ ws' = [ws EXCEPT !.writers = @ \ {"heartbeat"}]
    /\ browser' = [browser EXCEPT !.pingIn = @ \/ (ok /\ ~browser.gone)]
    /\ heartbeat' = IF ok THEN "select" ELSE "failed"
    /\ UNCHANGED <<shell, ptyReader, done, closeOnce, ptmx, cmd, inbox, handled,
                   teardown>>
    /\ UNCHANGED outsideShell

\* the ping could not be written: closeDone, and the heartbeat returns
HeartbeatFail ==
    /\ heartbeat = "failed"
    /\ done' = closeDone(done, closeOnce)
    /\ closeOnce' = TRUE
    /\ heartbeat' = "exited"
    /\ UNCHANGED <<shell, ptyReader, writeMu, ptmx, cmd, ws, browser, inbox, handled,
                   teardown>>
    /\ UNCHANGED outsideShell

\* the PTY reader's select: it returns when done is closed, and the deferred
\* closeDone runs
ReaderTop ==
    /\ ptyReader = "top"
    /\ IF Closed(done)
       THEN /\ ptyReader' = "exited"
            /\ done' = closeDone(done, closeOnce)
            /\ closeOnce' = TRUE
       ELSE /\ ptyReader' = "read"
            /\ UNCHANGED <<done, closeOnce>>
    /\ UNCHANGED <<shell, heartbeat, writeMu, ptmx, cmd, ws, browser, inbox, handled,
                   teardown>>
    /\ UNCHANGED outsideShell

\* ptmx.Read returns output of the shell
ReaderRead ==
    /\ ptyReader = "read"
    /\ ptmx.open /\ ptmx.output
    /\ ptmx' = [ptmx EXCEPT !.output = FALSE]
    /\ ptyReader' = "lock"
    /\ UNCHANGED <<shell, heartbeat, writeMu, done, closeOnce, cmd, ws, browser,
                   inbox, handled, teardown>>
    /\ UNCHANGED outsideShell

\* ptmx.Read fails, the PTY being closed or the shell ended: the reader
\* returns and the deferred closeDone runs
ReaderReadError ==
    /\ ptyReader = "read"
    /\ ~ptmx.open \/ cmd.state # "running"
    /\ done' = closeDone(done, closeOnce)
    /\ closeOnce' = TRUE
    /\ ptyReader' = "exited"
    /\ UNCHANGED <<shell, heartbeat, writeMu, ptmx, cmd, ws, browser, inbox, handled,
                   teardown>>
    /\ UNCHANGED outsideShell

\* the PTY reader takes writeMu and begins to write the output
ReaderLock ==
    /\ ptyReader = "lock"
    /\ CanLock(writeMu)
    /\ writeMu' = "ptyReader"
    /\ ws' = [ws EXCEPT !.writers = @ \cup {"ptyReader"}]
    /\ ptyReader' = "write"
    /\ UNCHANGED <<shell, heartbeat, done, closeOnce, ptmx, cmd, browser, inbox,
                   handled, teardown>>
    /\ UNCHANGED outsideShell

\* the output's WriteMessage returns and the PTY reader unlocks writeMu
ReaderWritten(ok) ==
    /\ ptyReader = "write"
    /\ IF ok THEN ws.open ELSE ~ws.open \/ browser.gone
    /\ writeMu' = "none"
    /\ ws' = [ws EXCEPT !.writers = @ \ {"ptyReader"}]
    /\ ptyReader' = IF ok THEN "top" ELSE "failed"
    /\ UNCHANGED <<shell, heartbeat, done, closeOnce, ptmx, cmd, browser, inbox,
                   handled, teardown>>
    /\ UNCHANGED outsideShell

\* the output could not be written: the reader returns and the deferred
\* closeDone runs
ReaderFail ==
    /\ ptyReader = "failed"
    /\ done' = closeDone(done, closeOnce)
    /\ closeOnce' = TRUE
    /\ ptyReader' = "exited"
    /\ UNCHANGED <<shell, heartbeat, writeMu, ptmx, cmd, ws, browser, inbox, handled,
                   teardown>>
    /\ UNCHANGED outsideShell

\* the client sends a message
ClientSend(msg, limit) ==
    /\ ws.open
    /\ ~browser.gone
    /\ browser.sent < limit
    /\ inbox' = Append(inbox, msg)
    /\ browser' = [browser EXCEPT !.sent = @ + 1]
    /\ UNCHANGED <<shell, heartbeat, ptyReader, writeMu, done, closeOnce, ptmx, cmd,
                   ws, handled, teardown>>
    /\ UNCHANGED outsideShell

\* the client disconnects
ClientClose ==
    /\ ws.open
    /\ ~browser.gone
    /\ browser' = [browser EXCEPT !.gone = TRUE]
    /\ UNCHANGED <<shell, heartbeat, ptyReader, writeMu, done, closeOnce, ptmx, cmd,
                   ws, inbox, handled, teardown>>
    /\ UNCHANGED outsideShell

\* the client stops answering pings
ClientSuspend ==
    /\ ws.open
    /\ ~browser.gone
    /\ browser.answers
    /\ browser' = [browser EXCEPT !.answers = FALSE]
    /\ UNCHANGED <<shell, heartbeat, ptyReader, writeMu, done, closeOnce, ptmx, cmd,
                   ws, inbox, handled, teardown>>
    /\ UNCHANGED outsideShell

\* the client answers a ping with a pong
ClientPong ==
    /\ browser.pingIn
    /\ browser.answers
    /\ ~browser.gone
    /\ browser' = [browser EXCEPT !.pingIn = FALSE, !.pongOut = TRUE]
    /\ UNCHANGED <<shell, heartbeat, ptyReader, writeMu, done, closeOnce, ptmx, cmd,
                   ws, inbox, handled, teardown>>
    /\ UNCHANGED outsideShell

\* the shell prints something
ChildOutput ==
    /\ cmd.state = "running"
    /\ ptmx.open
    /\ ~ptmx.output
    /\ ptmx' = [ptmx EXCEPT !.output = TRUE]
    /\ UNCHANGED <<shell, heartbeat, ptyReader, writeMu, done, closeOnce, cmd, ws,
                   browser, inbox, handled, teardown>>
    /\ UNCHANGED outsideShell

\* the shell exits by itself
ChildExit ==
    /\ cmd.state = "running"
    /\ cmd' = [cmd EXCEPT !.state = "exited"]
    /\ UNCHANGED <<shell, heartbeat, ptyReader, writeMu, done, closeOnce, ptmx, ws,
                   browser, inbox, handled, teardown>>
    /\ UNCHANGED outsideShell

\* a ping period passes: the ticker fires, and the read deadline, which a
\* pong moves, comes one period nearer
Period ==
    /\ ptmx.started
    /\ shell.pc # "ended"
    /\ ws.sincePong < PeriodsToDeadline
    /\ ws' = [ws EXCEPT !.sincePong = @ + 1, !.tick = TRUE]
    /\ UNCHANGED <<shell, heartbeat, ptyReader, writeMu, done, closeOnce, ptmx, cmd,
                   browser, inbox, handled, teardown>>
    /\ UNCHANGED outsideShell

\* Handle, but for the pongs it reads
ClientReaderSteps(queries) ==
    \/ \E info \in {RunningInfo, StoppedInfo}, r \in SessionRequests : Handle(info, r)
    \/ \E q \in queries : StartWithSize(q)
    \/ StartFail
    \/ FailWritten
    \/ LoopTop
    \/ ReadMessage
    \/ ReadError
    \/ PtyWrite
    \/ ClosePty
    \/ Kill
    \/ Wait
    \/ CloseConn

HeartbeatSteps ==
    \/ HeartbeatDone
    \/ HeartbeatTick
    \/ HeartbeatLock
    \/ \E ok \in BOOLEAN : HeartbeatWritten(ok)
    \/ HeartbeatFail

ReaderSteps ==
    \/ ReaderTop
    \/ ReaderRead
    \/ ReaderReadError
    \/ ReaderLock
    \/ \E ok \in BOOLEAN : ReaderWritten(ok)
    \/ ReaderFail

ShellEnv(msgs, limit) ==
    \/ \E msg \in msgs : ClientSend(msg, limit)
    \/ ClientClose
    \/ ClientSuspend
    \/ ClientPong
    \/ ChildOutput
    \/ ChildExit
    \/ Period

ShellNext(msgs, limit, queries) ==
    \/ ClientReaderSteps(queries)
    \/ ReadPong
    \/ HeartbeatSteps
    \/ ReaderSteps
    \/ ShellEnv(msgs, limit)

\* the session while no ping period passes
ResizeNext(msgs, queries) ==
    \/ ClientReaderSteps(queries)
    \/ ReaderSteps
    \/ \E msg \in msgs : ClientSend(msg, MaxMsgs)
    \/ ClientClose
    \/ ChildOutput
    \/ ChildExit

(***************************************************************************)
(* The network policy applier (internal/network): ValidateConfig, and      *)
(* ApplyToVM, which stages three files on the host and installs them in    *)
(* the VM by a fixed list of Exec and Transfer calls.  A rule's value is a *)
(* sequence of one-character strings.                                      *)
(***************************************************************************)
NetworkModeNone == "none"

NetworkModeAllowlist == "allowlist"

NetworkModeBlocklist == "blocklist"

NetworkModeIsolated == "isolated"

\* strings.Split(s, sep) for a separator of one character
RECURSIVE Split(_, _)
Split(s, sep) ==
    IF \A k \in 1..Len(s) : s[k] # sep THEN <<s>>
    ELSE LET at == CHOOSE k \in 1..Len(s) :
                       s[k] = sep /\ \A j \in 1..(k - 1) : s[j] # sep
         IN  <<SubSeq(s, 1, at - 1)>> \o Split(SubSeq(s, at + 1, Len(s)), sep)

\* isValidIP's loop body: one part between dots
ValidOctet(part) ==
    /\ Len(part) # 0 /\ Len(part) <= 3
    /\ AllIn(part, Digit)
    /\ Atoi(part) <= 255
    /\ ~(Len(part) > 1 /\ part[1] = "0")

isValidIP(ip) ==
    LET parts == Split(ip, ".")
    IN  /\ Len(parts) = 4
        /\ \A k \in 1..Len(parts) : ValidOctet(parts[k])

NetworkRule(type, value) == [Type |-> type, Value |-> value, Comment |-> ""]

NetworkConfig(mode, rules) == [Mode |-> mode, Rules |-> rules]

\* validateRule: the error it returns ("": nil)
validateRule(rule) ==
    IF rule.Value = << >> THEN "rule value cannot be empty"
    ELSE CASE rule.Type = "ip" ->
                IF ~isValidIP(rule.Value) THEN "invalid IP address" ELSE ""
           [] rule.Type = "cidr" ->
                IF \A k \in 1..Len(rule.Value) : rule.Value[k] # "/"
                THEN "CIDR must contain /" ELSE ""
           [] rule.Type = "domain" ->
                IF \E k \in 1..Len(rule.Value) : rule.Value[k] = " "
                THEN "domain cannot contain spaces" ELSE ""
           [] OTHER -> "invalid rule type"

\* an error value: the message, and the rule it is about (0: none)
Error(msg, rule) == [err |-> msg, rule |-> rule]

Nil == Error("", 0)

\* the first rule validateRule rejects (0: none)
FirstBadRule(rules) ==
    LET bad == {k \in 1..Len(rules) : validateRule(rules[k]) # ""}
    IN  IF bad = {} THEN 0 ELSE CHOOSE k \in bad : \A j \in bad : k <= j

\* validation that accepts everything
ValidateNothing(config) == Nil

\* ValidateConfig: the error it returns
ValidateConfig(config) ==
    IF config.Mode \in {NetworkModeNone, NetworkModeIsolated} THEN Nil
    ELSE IF config.Mode \in {NetworkModeAllowlist, NetworkModeBlocklist}
    THEN IF Len(config.Rules) = 0 THEN Error("requires at least one rule", 0)
         ELSE LET k == FirstBadRule(config.Rules)
              IN  IF k = 0 THEN Nil ELSE Error(validateRule(config.Rules[k]), k)
    ELSE Error("invalid network mode", 0)

\* GenerateIptablesScript: what the template takes from the policy
GenerateIptablesScript(config) ==
    [mode |-> config.Mode,
     rules |-> IF config.Mode \in {NetworkModeAllowlist, NetworkModeBlocklist}
               THEN config.Rules ELSE << >>]

\* json.MarshalIndent(config): the members of the document; rules and
\* comment are left out when empty
MarshalConfig(config) ==
    [mode |-> config.Mode,
     hasRules |-> Len(config.Rules) > 0,
     rules |-> [k \in 1..Len(config.Rules) |->
                   [type |-> config.Rules[k].Type,
                    value |-> config.Rules[k].Value,
                    hasComment |-> config.Rules[k].Comment # "",
                    comment |-> config.Rules[k].Comment]]]

\* json.Unmarshal(output, &config): members left out stay zero
UnmarshalConfig(doc) ==
    [Mode |-> doc.mode,
     Rules |-> IF doc.hasRules
               THEN [k \in 1..Len(doc.rules) |->
                        [Type |-> doc.rules[k].type,
                         Value |-> doc.rules[k].value,
                         Comment |-> IF doc.rules[k].hasComment
                                     THEN doc.rules[k].comment ELSE ""]]
               ELSE << >>]

ip8888 == <<"8", ".", "8", ".", "8", ".", "8">>

ip256 == <<"2", "5", "6", ".", "0", ".", "0", ".", "1">>

ipZeros == <<"0", "1", ".", "0", "2", ".", "0", "3", ".", "0", "4">>

ipShort == <<"1", ".", "2", ".", "3">>

cidr10 == <<"1", "0", ".", "0", ".", "0", ".", "0", "/", "8">>

cidrNoSlash == <<"1", "0", ".", "0", ".", "0", ".", "0">>

domainGithub == <<"g", "i", "t", "h", "u", "b", ".", "c", "o", "m">>

domainSpace == <<"h", "a", "s", " ", "s", "p", "a", "c", "e">>

domainTab == <<"h", "a", "s", "\t", "t", "a", "b">>

\* the rules of the workload that the validation rules call invalid
InvalidRules ==
    {NetworkRule("ip", ip256), NetworkRule("ip", ipZeros), NetworkRule("ip", ipShort),
     NetworkRule("cidr", cidrNoSlash), NetworkRule("domain", domainSpace),
     NetworkRule("domain", domainTab),
     NetworkRule("ip", << >>), NetworkRule("host", domainGithub)}

ValidRules ==
    {NetworkRule("ip", ip8888), NetworkRule("cidr", cidr10),
     NetworkRule("domain", domainGithub)}

\* policies that pass every validation rule
GoodPolicies ==
    {NetworkConfig(NetworkModeNone, << >>),
     NetworkConfig(NetworkModeIsolated, << >>),
     NetworkConfig(NetworkModeAllowlist,
                   <<[NetworkRule("domain", domainGithub) EXCEPT !.Comment = "git"]>>),
     NetworkConfig(NetworkModeBlocklist,
                   <<NetworkRule("cidr", cidr10), NetworkRule("ip", ip8888)>>)}

\* policies that break a validation rule: a mode outside the enumeration, a
\* list mode without rules, each invalid rule, an invalid second rule, and
\* one invalid rule under each other mode
BadPolicies ==
    {NetworkConfig("open", << >>),
     NetworkConfig(NetworkModeAllowlist, << >>),
     NetworkConfig(NetworkModeBlocklist, << >>)}
    \cup {NetworkConfig(NetworkModeAllowlist, <<r>>) : r \in InvalidRules}
    \cup {NetworkConfig(NetworkModeBlocklist,
                         <<NetworkRule("ip", ip8888), NetworkRule("cidr", cidrNoSlash)>>)}
    \cup {NetworkConfig(m, <<NetworkRule("ip", ip256)>>) :
             m \in {NetworkModeNone, NetworkModeIsolated, "open"}}

\* the policies the callers pass
Policies == GoodPolicies \cup BadPolicies

vmNetworkDir == "/opt/dabbi/network"

vmConfigFile == "/opt/dabbi/network/config.json"

vmScriptFile == "/opt/dabbi/network/apply-rules.sh"

vmServiceFile == "/etc/systemd/system/dabbi-network.service"

\* the Exec and Transfer calls of ApplyToVM, in the order of the code, each
\* with the message its error is wrapped in
Steps ==
    <<[call |-> "Exec", args |-> <<"mkdir", "-p", vmNetworkDir>>,
       msg |-> "failed to create network dir in VM"],
      [call |-> "Transfer", args |-> <<"config.json", "/tmp/dabbi-config.json">>,
       msg |-> "failed to transfer config"],
      [call |-> "Transfer", args |-> <<"apply-rules.sh", "/tmp/dabbi-apply-rules.sh">>,
       msg |-> "failed to transfer script"],
      [call |-> "Transfer", args |-> <<"dabbi-network.service", "/tmp/dabbi-network.service">>,
       msg |-> "failed to transfer service"],
      [call |-> "Exec", args |-> <<"mv", "/tmp/dabbi-config.json", vmConfigFile>>,
       msg |-> "failed to install config"],
      [call |-> "Exec", args |-> <<"mv", "/tmp/dabbi-apply-rules.sh", vmScriptFile>>,
       msg |-> "failed to install script"],
      [call |-> "Exec", args |-> <<"mv", "/tmp/dabbi-network.service", vmServiceFile>>,
       msg |-> "failed to install service"],
      [call |-> "Exec", args |-> <<"chmod", "+x", vmScriptFile>>,
       msg |-> "failed to make script executable"],
      [call |-> "Exec", args |-> <<"systemctl", "daemon-reload">>,
       msg |-> "failed to reload systemd"],
      [call |-> "Exec", args |-> <<"systemctl", "enable", "dabbi-network.service">>,
       msg |-> "failed to enable service"],
      [call |-> "Exec", args |-> <<vmScriptFile>>,
       msg |-> "failed to apply rules"]>>

VMPaths ==
    {"/tmp/dabbi-config.json", "/tmp/dabbi-apply-rules.sh", "/tmp/dabbi-network.service",
     vmConfigFile, vmScriptFile, vmServiceFile}

\* a VM that was never configured; a file is << >> when absent and
\* <<content>> when present
NewVM ==
    [files |-> [p \in VMPaths |-> << >>], dir |-> FALSE, executable |-> FALSE,
     loaded |-> << >>, enabled |-> FALSE, rules |-> << >>]

\* the three files ApplyToVM writes under its temp dir
Staged(config) ==
    [f \in {"config.json", "apply-rules.sh", "dabbi-network.service"} |->
        CASE f = "config.json" -> MarshalConfig(config)
          [] f = "apply-rules.sh" -> GenerateIptablesScript(config)
          [] OTHER -> "systemdServiceTemplate"]

\* what a successful Exec or Transfer does to the VM
Effect(fs, step, staged) ==
    LET a == step.args
    IN  IF step.call = "Transfer"
        THEN [fs EXCEPT !.files[a[2]] = <<staged[a[1]]>>]
        ELSE CASE a[1] = "mkdir" -> [fs EXCEPT !.dir = TRUE]
               [] a[1] = "mv" ->
                    [fs EXCEPT !.files[a[3]] = fs.files[a[2]], !.files[a[2]] = << >>]
               [] a[1] = "chmod" -> [fs EXCEPT !.executable = TRUE]
               [] a[1] = "systemctl" ->
                    IF a[2] = "enable" THEN [fs EXCEPT !.enabled = TRUE]
                    ELSE [fs EXCEPT !.loaded = fs.files[vmServiceFile]]
               [] OTHER -> [fs EXCEPT !.rules = fs.files[vmScriptFile]]

\* the errors an Exec or a Transfer fails with
Causes == {Error("exit status 1", 0), Error("context deadline exceeded", 0)}

\* ApplyToVM before it is called the first time
NoApply ==
    [pc |-> "idle", config |-> NetworkConfig("", << >>), step |-> 0,
     msg |-> "", cause |-> Nil, tmpDir |-> FALSE, made |-> 0, calls |-> 0,
     before |-> NewVM, failed |-> 0]

NoRead == [read |-> FALSE, err |-> "", config |-> << >>]

ApplierInit ==
    /\ ap = NoApply
    /\ vmfs = NewVM
    /\ issued = << >>
    /\ current = NoRead
    /\ lastOK = << >>

\* the failed step ignored: the installation goes on
AfterStepGoOn(k, ok) == IF k = Len(Steps) THEN "done" ELSE "vm"

\* ApplyToVM after step k returned: every error is returned at once
AfterStep(k, ok) == IF ok /\ k < Len(Steps) THEN "vm" ELSE "done"

\* ApplyToVM from its entry to the first call on the VM: validation, the
\* script, the temp dir and its three files.  host: the os call that fails
ApplyToVM(config, host) ==
    /\ ap.pc # "vm"
    /\ ap.calls < MaxApplies
    /\ LET verr == ValidateConfig(config)
           call == [NoApply EXCEPT !.config = config, !.calls = ap.calls + 1,
                                   !.before = vmfs]
       IN  ap' = IF verr # Nil
                 THEN [call EXCEPT !.pc = "done", !.msg = "invalid network config",
                                   !.cause = verr]
                 ELSE IF host = "MkdirTemp"
                 THEN [call EXCEPT !.pc = "done", !.msg = "failed to create temp dir",
                                   !.cause = Error("no space left on device", 0)]
                 ELSE IF host = "WriteFile"
                 THEN [call EXCEPT !.pc = "done", !.msg = "failed to write config file",
                                   !.cause = Error("no space left on device", 0),
                                   !.made = 1]
                 ELSE [call EXCEPT !.pc = "vm", !.tmpDir = TRUE, !.made = 1]
    /\ issued' = << >>
    /\ current' = NoRead
    /\ UNCHANGED <<vmfs, lastOK>>
    /\ UNCHANGED outsideApplier

\* RemoveFromVM: the none policy applied
RemoveFromVM(host) == ApplyToVM(NetworkConfig(NetworkModeNone, << >>), host)

\* the next Exec or Transfer of ApplyToVM and the check of its error; the
\* deferred RemoveAll runs when ApplyToVM returns
ApplyStep(ok, cause) ==
    /\ ap.pc = "vm"
    /\ LET k == ap.step + 1
           pc == AfterStep(k, ok)
       IN  /\ issued' = Append(issued, k)
           /\ vmfs' = IF ok THEN Effect(vmfs, Steps[k], Staged(ap.config)) ELSE vmfs
           /\ ap' = [ap EXCEPT !.pc = pc, !.step = k,
                               !.msg = IF ok THEN @ ELSE Steps[k].msg,
                               !.cause = IF ok THEN @ ELSE cause,
                               !.failed = IF ok \/ @ # 0 THEN @ ELSE k,
                               !.tmpDir = pc # "done"]
           /\ lastOK' = IF pc = "done" /\ ok /\ ap.msg = "" THEN <<ap.config>> ELSE lastOK
    /\ UNCHANGED current
    /\ UNCHANGED outsideApplier

\* GetCurrentConfig: cat of the config file, or an Exec that fails otherwise
GetCurrentConfig(ok) ==
    /\ ap.pc # "vm"
    /\ current' = IF ~ok
              THEN [read |-> TRUE, err |-> "failed to read config from VM", config |-> << >>]
              ELSE IF vmfs.files[vmConfigFile] = << >>
              THEN [read |-> TRUE, err |-> "", config |-> << >>]
              ELSE [read |-> TRUE, err |-> "",
                    config |-> <<UnmarshalConfig(vmfs.files[vmConfigFile][1])>>]
    /\ UNCHANGED <<ap, vmfs, issued, lastOK>>
    /\ UNCHANGED outsideApplier

ApplierNext(policies) ==
    \/ \E config \in policies, host \in {"", "MkdirTemp", "WriteFile"} :
           ApplyToVM(config, host)
    \/ \E host \in {"", "MkdirTemp", "WriteFile"} : RemoveFromVM(host)
    \/ \E cause \in Causes : ApplyStep(FALSE, cause)
    \/ ApplyStep(TRUE, Nil)
    \/ \E ok \in BOOLEAN : GetCurrentConfig(ok)

(***************************************************************************)
(* The rule set of the rendered script: the chains the script fills, and   *)
(* the verdict of the packet filter on a packet.                           *)
(***************************************************************************)
ipLoopback == <<"1", "2", "7", ".", "0", ".", "0", ".", "1">>

\* the address of the default route inside the VM
gatewayIP == <<"1", "0", ".", "0", ".", "0", ".", "1">>

\* GATEWAY_NET: sed 's/\.[0-9]*$/.0\/24/' of the gateway address
GatewayNet(ip) ==
    LET p == Split(ip, ".")
    IN  p[1] \o <<".">> \o p[2] \o <<".">> \o p[3] \o <<".", "0", "/", "2", "4">>

\* what a rule matches on: an interface, the connection state, the remote
\* network, the destination port; "", FALSE, << >> and 0 match everything
AnyPacket == [iface |-> "", established |-> FALSE, net |-> << >>, dport |-> 0]

IptRule(match, target) == [match |-> match, target |-> target]

\* dig +short value A: the addresses the resolver answers with
Dig(value) == <<ip8888>>

\* {{range .Rules}}: the rules appended to DABBI_OUT for one entry
EntryRules(rule, target) ==
    CASE rule.Type \in {"ip", "cidr"} ->
            <<IptRule([AnyPacket EXCEPT !.net = rule.Value], target)>>
      [] rule.Type = "domain" ->
            [k \in 1..Len(Dig(rule.Value)) |->
                IptRule([AnyPacket EXCEPT !.net = Dig(rule.Value)[k]], target)]
      [] OTHER -> << >>

RECURSIVE UserRules(_, _)
UserRules(rules, target) ==
    IF rules = << >> THEN << >>
    ELSE EntryRules(Head(rules), target) \o UserRules(Tail(rules), target)

\* loopback, established connections and the gateway network accepted on
\* a chain (-o and -d on OUTPUT, -i and -s on INPUT)
AllowBase ==
    <<IptRule([AnyPacket EXCEPT !.iface = "lo"], "ACCEPT"),
      IptRule([AnyPacket EXCEPT !.established = TRUE], "ACCEPT"),
      IptRule([AnyPacket EXCEPT !.net = GatewayNet(gatewayIP)], "ACCEPT")>>

\* scriptTemplate executed on a flushed filter: the policies and the chains
scriptTemplate(script) ==
    CASE script.mode = NetworkModeIsolated ->
            [policy |-> [OUTPUT |-> "DROP", INPUT |-> "DROP"],
             OUTPUT |-> AllowBase, INPUT |-> AllowBase,
             DABBI_OUT |-> << >>]
      [] script.mode = NetworkModeAllowlist ->
            [policy |-> [OUTPUT |-> "DROP", INPUT |-> "DROP"],
             OUTPUT |-> AllowBase
                        \o <<IptRule([AnyPacket EXCEPT !.dport = 53], "ACCEPT"),
                             IptRule(AnyPacket, "DABBI_OUT")>>,
             INPUT |-> AllowBase,
             DABBI_OUT |-> UserRules(script.rules, "ACCEPT")]
      [] script.mode = NetworkModeBlocklist ->
            [policy |-> [OUTPUT |-> "ACCEPT", INPUT |-> "ACCEPT"],
             OUTPUT |-> <<IptRule(AnyPacket, "DABBI_OUT")>>,
             INPUT |-> << >>,
             DABBI_OUT |-> UserRules(script.rules, "DROP")]
      [] OTHER ->
            [policy |-> [OUTPUT |-> "ACCEPT", INPUT |-> "ACCEPT"],
             OUTPUT |-> << >>, INPUT |-> << >>, DABBI_OUT |-> << >>]

\* -d net: the address lies in the network (a prefix of whole octets; an
\* address without / is a /32)
InNet(addr, net) ==
    LET parts == Split(net, "/")
        bits == IF Len(parts) = 2 THEN Atoi(parts[2]) ELSE 32
        a == Split(addr, ".")
        n == Split(parts[1], ".")
    IN  \A k \in 1..(bits \div 8) : Atoi(a[k]) = Atoi(n[k])

\* a packet: the chain it traverses, its interface, the remote address
\* (destination on OUTPUT, source on INPUT), its connection state, its port
Packets ==
    [chain : {"OUTPUT", "INPUT"}, iface : {"lo", "eth0"},
     addr : {ipLoopback, gatewayIP, ip8888},
     state : {"NEW", "ESTABLISHED"}, dport : {53, 443}]

RuleMatches(m, pkt) ==
    /\ m.iface = "" \/ pkt.iface = m.iface
    /\ ~m.established \/ pkt.state = "ESTABLISHED"
    /\ m.net = << >> \/ InNet(pkt.addr, m.net)
    /\ m.dport = 0 \/ pkt.dport = m.dport

\* the first matching rule decides; a jump into a chain that decides
\* nothing returns to the rule after the jump
RECURSIVE Traverse(_, _, _, _)
Traverse(table, chain, k, pkt) ==
    IF k > Len(table[chain]) THEN "RETURN"
    ELSE LET r == table[chain][k]
         IN  IF ~RuleMatches(r.match, pkt) THEN Traverse(table, chain, k + 1, pkt)
             ELSE IF r.target \in {"ACCEPT", "DROP"} THEN r.target
             ELSE LET v == Traverse(table, r.target, 1, pkt)
                  IN  IF v = "RETURN" THEN Traverse(table, chain, k + 1, pkt) ELSE v

\* the verdict of the filter: the chain's, or the chain's policy
Verdict(table, pkt) ==
    LET v == Traverse(table, pkt.chain, 1, pkt)
    IN  IF v = "RETURN" THEN table.policy[pkt.chain] ELSE v

(***************************************************************************)
(* The agent listener manager (internal/agent): Start, Stop, StopAll and   *)
(* the goroutine that serves a listener, one action per access to the map, *)
(* to a socket or to an http.Server.  Nothing is locked: listeners is a    *)
(* sync.Map and each of its methods is one step.                           *)
(***************************************************************************)
basePort == 11000

portRange == 1000

\* the names Start and Stop are called with: the engine's VMs and one it
\* does not know
ManagerVMs == EngineVMs \cup {<<"g">>}

\* fnv.New32a over the name, modulo portRange: the sums of "a" and "g" are
\* 3826002220 and 3792446982
Sum32ModRange(vmName) == IF vmName = <<"a">> THEN 220 ELSE 982

\* PortForVM
PortForVM(vmName) == basePort + Sum32ModRange(vmName)

MgrCallers == 1..NumMgrCallers

LsnIds == 1..MaxListeners

\* a listener not made yet.  bound: the socket is open; inShutdown: Shutdown
\* was called on the server; tracked: Serve has registered the socket with
\* the server; g: the goroutine of Start
NoListener ==
    [vmName |-> << >>, port |-> 0, bound |-> FALSE, inShutdown |-> FALSE,
     tracked |-> FALSE, g |-> "none"]

NoResult == [op |-> "", err |-> "", alone |-> FALSE]

\* a caller outside the manager; last: the call that returned last
IdleCaller ==
    [op |-> "", pc |-> "idle", vmName |-> << >>, l |-> 0, visited |-> {},
     alone |-> FALSE, last |-> NoResult]

ManagerInit ==
    /\ listeners = [vm \in ManagerVMs |-> 0]
    /\ lstn = [i \in LsnIds |-> NoListener]
    /\ mcall = [c \in MgrCallers |-> IdleCaller]

\* the call of c returns
Return(cl, err) ==
    [IdleCaller EXCEPT !.last = [op |-> cl.op, err |-> err, alone |-> cl.alone]]

\* a Start begins: a StopAll that is running is no longer alone
WithStart(calls) ==
    [c \in MgrCallers |->
        IF calls[c].op = "StopAll" THEN [calls[c] EXCEPT !.alone = FALSE] ELSE calls[c]]

\* Start: m.listeners.Load(vmName); nil at once if there is an entry
CallStart(c, vmName) ==
    /\ mcall[c].pc = "idle"
    /\ LET cl == [mcall[c] EXCEPT !.op = "Start", !.vmName = vmName]
       IN  mcall' = [WithStart(mcall) EXCEPT ![c] =
                        IF listeners[vmName] # 0 THEN Return(cl, "")
                        ELSE [cl EXCEPT !.pc = "info"]]
    /\ UNCHANGED <<server, agents, listeners, lstn, watchdogVars>>
    /\ UNCHANGED outsideServer

\* Start: m.mp.Info and the three checks of its result
StartInfo(c) ==
    /\ mcall[c].pc = "info"
    /\ LET info == Info(mcall[c].vmName)
           err == IF info.err THEN "not found"
                  ELSE IF info.state # StateRunning THEN "not running"
                  ELSE IF Len(info.ips) = 0 THEN "no IP address"
                  ELSE ""
       IN  mcall' = [mcall EXCEPT ![c] =
                        IF err # "" THEN Return(@, err) ELSE [@ EXCEPT !.pc = "listen"]]
    /\ UNCHANGED <<server, agents, listeners, lstn, watchdogVars>>
    /\ UNCHANGED outsideServer

\* some open socket is bound to the port
PortInUse(port) == \E i \in LsnIds : lstn[i].bound /\ lstn[i].port = port

\* Start: net.Listen on the VM's port; it fails when the port is taken, and
\* may fail for any other reason
StartListen(c, ok) ==
    /\ mcall[c].pc = "listen"
    /\ LET port == PortForVM(mcall[c].vmName)
           free == {i \in LsnIds : lstn[i].g = "none" /\ ~lstn[i].bound}
       IN  IF ~ok \/ PortInUse(port)
           THEN /\ mcall' = [mcall EXCEPT ![c] = Return(@, "failed to listen")]
                /\ lstn' = lstn
           ELSE /\ free # {}
                /\ LET i == CHOOSE i \in free : \A j \in free : i <= j
                   IN  /\ lstn' = [lstn EXCEPT ![i] =
                                      [NoListener EXCEPT !.vmName = mcall[c].vmName,
                                                         !.port = port, !.bound = TRUE]]
                       /\ mcall' = [mcall EXCEPT ![c].pc = "store", ![c].l = i]
    /\ UNCHANGED <<server, agents, listeners, watchdogVars>>
    /\ UNCHANGED outsideServer

\* Start: m.listeners.Store(vmName, l), the go statement, return nil
StartStore(c) ==
    /\ mcall[c].pc = "store"
    /\ listeners' = [listeners EXCEPT ![mcall[c].vmName] = mcall[c].l]
    /\ lstn' = [lstn EXCEPT ![mcall[c].l].g = "spawned"]
    /\ mcall' = [mcall EXCEPT ![c] = Return(@, "")]
    /\ UNCHANGED <<server, agents, watchdogVars>>
    /\ UNCHANGED outsideServer

\* the goroutine: server.Serve(ln) registers the socket and accepts, or, on
\* a server already shut down, closes the socket and returns ErrServerClosed
GoServe(i) ==
    /\ lstn[i].g = "spawned"
    /\ lstn' = [lstn EXCEPT ![i] =
                   IF @.inShutdown THEN [@ EXCEPT !.bound = FALSE, !.g = "returned"]
                   ELSE [@ EXCEPT !.tracked = TRUE, !.g = "serving"]]
    /\ UNCHANGED <<server, agents, listeners, mcall, watchdogVars>>
    /\ UNCHANGED outsideServer

\* the goroutine: Shutdown has closed the socket, Accept fails and Serve
\* returns ErrServerClosed
ServeReturn(i) ==
    /\ lstn[i].g = "serving"
    /\ lstn[i].inShutdown /\ ~lstn[i].bound
    /\ lstn' = [lstn EXCEPT ![i] = [@ EXCEPT !.tracked = FALSE, !.g = "returned"]]
    /\ UNCHANGED <<server, agents, listeners, mcall, watchdogVars>>
    /\ UNCHANGED outsideServer

\* sync.Map.Delete(vmName): the entry of the name goes, whatever it holds
Delete(m, vmName, i) == [m EXCEPT ![vmName] = 0]

\* the goroutine: m.listeners.Delete(vmName) after Serve has returned
ServeDelete(i) ==
    /\ lstn[i].g = "returned"
    /\ listeners' = Delete(listeners, lstn[i].vmName, i)
    /\ lstn' = [lstn EXCEPT ![i].g = "done"]
    /\ UNCHANGED <<server, agents, mcall, watchdogVars>>
    /\ UNCHANGED outsideServer

\* Stop: m.listeners.LoadAndDelete(vmName), on behalf of the caller's call
LoadAndDelete(cl, vmName, back) ==
    IF listeners[vmName] # 0
    THEN [cl EXCEPT !.pc = "shutdown", !.l = listeners[vmName]]
    ELSE back

\* Stop(vmName)
CallStop(c, vmName) ==
    /\ mcall[c].pc = "idle"
    /\ LET cl == [mcall[c] EXCEPT !.op = "Stop", !.vmName = vmName]
       IN  mcall' = [mcall EXCEPT ![c] = LoadAndDelete(cl, vmName, Return(cl, ""))]
    /\ listeners' = [listeners EXCEPT ![vmName] = 0]
    /\ UNCHANGED <<server, agents, lstn, watchdogVars>>
    /\ UNCHANGED outsideServer

\* Stop: l.server.Shutdown(ctx) closes the sockets Serve has registered and
\* returns within five seconds; then Stop returns, into Range if StopAll
\* called it
StopShutdown(c) ==
    /\ mcall[c].pc = "shutdown"
    /\ LET l == lstn[mcall[c].l]
       IN  lstn' = [lstn EXCEPT ![mcall[c].l] =
                       [l EXCEPT !.inShutdown = TRUE, !.bound = l.bound /\ ~l.tracked]]
    /\ mcall' = [mcall EXCEPT ![c] =
                    IF @.op = "StopAll" THEN [@ EXCEPT !.pc = "range", !.l = 0]
                    ELSE Return(@, "")]
    /\ UNCHANGED <<server, agents, listeners, watchdogVars>>
    /\ UNCHANGED outsideServer

\* StopAll: m.listeners.Range begins; alone: no Start is running
CallStopAll(c) ==
    /\ mcall[c].pc = "idle"
    /\ mcall' = [mcall EXCEPT ![c] =
                    [@ EXCEPT !.op = "StopAll", !.pc = "range", !.visited = {},
                              !.alone = \A d \in MgrCallers : mcall[d].op # "Start"]]
    /\ UNCHANGED <<server, agents, listeners, lstn, watchdogVars>>
    /\ UNCHANGED outsideServer

\* StopAll: Range comes to a name, once, and calls m.Stop for it if the map
\* holds it
RangeVisit(c, vmName) ==
    /\ mcall[c].pc = "range"
    /\ vmName \notin mcall[c].visited
    /\ LET cl == [mcall[c] EXCEPT !.visited = @ \cup {vmName}]
       IN  mcall' = [mcall EXCEPT ![c] = LoadAndDelete(cl, vmName, cl)]
    /\ listeners' = [listeners EXCEPT ![vmName] = 0]
    /\ UNCHANGED <<server, agents, lstn, watchdogVars>>
    /\ UNCHANGED outsideServer

\* StopAll: Range is through and StopAll returns
RangeEnd(c) ==
    /\ mcall[c].pc = "range"
    /\ mcall[c].visited = ManagerVMs
    /\ mcall' = [mcall EXCEPT ![c] = Return(@, "")]
    /\ UNCHANGED <<server, agents, listeners, lstn, watchdogVars>>
    /\ UNCHANGED outsideServer

\* callers of Start, Stop and StopAll and the goroutines of the listeners,
\* in any interleaving
ManagerNext ==
    \/ \E c \in MgrCallers, vmName \in ManagerVMs : CallStart(c, vmName)
    \/ \E c \in MgrCallers : StartInfo(c)
    \/ \E c \in MgrCallers, ok \in BOOLEAN : StartListen(c, ok)
    \/ \E c \in MgrCallers : StartStore(c)
    \/ \E i \in LsnIds : GoServe(i)
    \/ \E i \in LsnIds : ServeReturn(i)
    \/ \E i \in LsnIds : ServeDelete(i)
    \/ \E c \in MgrCallers, vmName \in ManagerVMs : CallStop(c, vmName)
    \/ \E c \in MgrCallers : StopShutdown(c)
    \/ \E c \in MgrCallers : CallStopAll(c)
    \/ \E c \in MgrCallers, vmName \in ManagerVMs : RangeVisit(c, vmName)
    \/ \E c \in MgrCallers : RangeEnd(c)

(***************************************************************************)
(* The daemon's Server: NewServer starts the watchdog, Shutdown stops it   *)
(* and the agent listeners.                                                *)
(***************************************************************************)
\* NewServer: the watchdog goroutine runs, no agent listener yet
NewServer ==
    [useTLS |-> FALSE, stopCh |-> "open", down |-> FALSE,
     api |-> [handled |-> FALSE, token |-> "",
              request |-> [cookies |-> << >>, authorization |-> << >>],
              status |-> "", next |-> FALSE, body |-> ""]]

ServerInit ==
    /\ server = NewServer
    /\ agents = {}
    /\ ManagerInit

\* agent.Manager.Start: a listener for a running VM with an address that has
\* none yet; the listen may fail
AgentStart(vm, listenOK) ==
    /\ vm \notin agents
    /\ LET info == Info(vm)
       IN  agents' = IF ~info.err /\ info.state = StateRunning /\ Len(info.ips) > 0
                        /\ listenOK
                     THEN agents \cup {vm} ELSE agents
    /\ UNCHANGED <<server, managerVars, watchdogVars>>
    /\ UNCHANGED outsideServer

\* agent.Manager.StopAll: every listener taken out of the map and shut down
StopAll(m) == {}

\* Server.Shutdown: watchdog.Stop closes stopCh, agents.StopAll; the tunnel
\* manager and the shell sessions are not touched
Shutdown ==
    /\ ~server.down
    /\ server' = [server EXCEPT !.stopCh = "closed", !.down = TRUE]
    /\ agents' = StopAll(agents)
    /\ UNCHANGED <<managerVars, watchdogVars>>
    /\ UNCHANGED outsideServer

\* Watchdog.run: the select takes the closed stopCh and the loop returns
WatchdogExit ==
    /\ wd.pc = "idle"
    /\ server.stopCh = "closed"
    /\ wd' = [wd EXCEPT !.pc = "stopped"]
    /\ UNCHANGED <<server, agents, managerVars, guest, now, stops, stopping, last,
                   steady, restartedAt, stopFailed>>
    /\ UNCHANGED outsideServer

\* a daemon that makes tunnels, agent listeners and a shell session, and is
\* shut down
ServerNext ==
    \/ \E vm \in EngineVMs : CallCreate(1, vm)
    \/ CreateInfo(1)
    \/ \E p \in HostPorts, t \in TunIds : CreateListen(1, p, t)
    \/ CreateInsert(1)
    \/ EngineEnv
    \/ \E vm \in EngineVMs, ok \in BOOLEAN : AgentStart(vm, ok)
    \/ Handle(RunningInfo, ShellRequest(<< >>, localhost, TRUE))
    \/ StartWithSize(NoSize)
    \/ Shutdown
    \/ WatchdogExit

(***************************************************************************)
(* The API's authentication middleware (mw.BearerAuth).  A token is one    *)
(* symbol of the strings that hold it.                                     *)
(***************************************************************************)
AuthCookieName == "dabbi_auth"

UpperCase == <<"A", "B", "C", "D", "E", "F", "G", "H", "I", "J", "K", "L", "M", 
               "N", "O", "P", "Q", "R", "S", "T", "U", "V", "W", "X", "Y", "Z">>

LowerCase == <<"a", "b", "c", "d", "e", "f", "g", "h", "i", "j", "k", "l", "m", 
               "n", "o", "p", "q", "r", "s", "t", "u", "v", "w", "x", "y", "z">>

\* strings.ToLower
ToLower(s) ==
    [k \in 1..Len(s) |->
        IF \E i \in 1..Len(UpperCase) : UpperCase[i] = s[k]
        THEN LowerCase[CHOOSE i \in 1..Len(UpperCase) : UpperCase[i] = s[k]]
        ELSE s[k]]

\* strings.SplitN(s, " ", 2): cut at the first space, if there is one
SplitN(s) ==
    LET at == {k \in 1..Len(s) : s[k] = " "}
        k == CHOOSE k \in at : \A j \in at : k <= j
    IN  IF at = {} THEN <<s>>
        ELSE <<SubSeq(s, 1, k - 1), SubSeq(s, k + 1, Len(s))>>

\* r.Cookie(name): the first cookie of that name, or http.ErrNoCookie
Cookie(cookies, name) ==
    LET at == {k \in 1..Len(cookies) : cookies[k].name = name}
    IN  IF at = {} THEN [err |-> TRUE, Value |-> << >>]
        ELSE [err |-> FALSE,
              Value |-> cookies[CHOOSE k \in at : \A j \in at : k <= j].value]

\* an API request: its cookies and its Authorization header (<< >>: none)
ApiRequest(cookies, authorization) ==
    [cookies |-> cookies, authorization |-> authorization]

\* the token as the text of a cookie value or of a header
TokenText(token) == IF token = "" THEN << >> ELSE <<token>>

Passed == [status |-> "200", next |-> TRUE, body |-> ""]

Unauthorized(body) == [status |-> "401", next |-> FALSE, body |-> body]

\* the middleware without the cookie: the header alone decides
BearerAuthHeaderOnly(token, r) ==
    LET parts == SplitN(r.authorization)
    IN  IF r.authorization = << >> THEN Unauthorized("Unauthorized")
        ELSE IF Len(parts) # 2 \/ ToLower(parts[1]) # <<"b", "e", "a", "r", "e", "r">>
        THEN Unauthorized("Invalid Authorization header format")
        ELSE IF parts[2] # TokenText(token) THEN Unauthorized("Unauthorized")
        ELSE Passed

\* BearerAuth(token): the cookie first, then the Authorization header
BearerAuth(token, r) ==
    LET cookie == Cookie(r.cookies, AuthCookieName)
        parts == SplitN(r.authorization)
    IN  IF ~cookie.err /\ cookie.Value = TokenText(token) THEN Passed
        ELSE IF r.authorization = << >> THEN Unauthorized("Unauthorized")
        ELSE IF Len(parts) # 2 \/ ToLower(parts[1]) # <<"b", "e", "a", "r", "e", "r">>
        THEN Unauthorized("Invalid Authorization header format")
        ELSE IF parts[2] # TokenText(token) THEN Unauthorized("Unauthorized")
        ELSE Passed

\* the cookies of a request: none, the auth cookie with the token, with
\* another value, with an empty value, and next to a cookie of another name
CookieJars ==
    {<< >>,
     <<[name |-> AuthCookieName, value |-> <<"tok">>]>>,
     <<[name |-> AuthCookieName, value |-> <<"wrong">>]>>,
     <<[name |-> AuthCookieName, value |-> << >>]>>,
     <<[name |-> "theme", value |-> <<"tok">>]>>,
     <<[name |-> "theme", value |-> <<"wrong">>],
       [name |-> AuthCookieName, value |-> <<"tok">>]>>}

\* the Authorization headers of TestBearerAuth, and more spellings
AuthorizationHeaders ==
    {<<>>,
     <<"B", "e", "a", "r", "e", "r", " ", "tok">>,
     <<"b", "e", "a", "r", "e", "r", " ", "tok">>,
     <<"B", "E", "A", "R", "E", "R", " ", "tok">>,
     <<"b", "E", "a", "R", "e", "R", " ", "tok">>,
     <<"B", "e", "a", "r", "e", "r", " ", "wrong">>,
     <<"B", "a", "s", "i", "c", " ", "abc123">>,
     <<"B", "e", "a", "r", "e", "r", "tok">>,
     <<"B", "e", "a", "r", "e", "r">>,
     <<"B", "e", "a", "r", "e", "r", " ">>,
     <<"B", "e", "a", "r", "e", "r", " ", " ", "tok">>,
     <<" ", "B", "e", "a", "r", "e", "r", " ", "tok">>,
     <<"tok">>,
     <<"B", "e", "a", "r", "e", "r", " ", "tok", " ">>,
     <<"T", "o", "k", "e", "n", " ", "tok">>}

\* a request to a route under /api: the middleware built with the
\* configured token, then the handler
ApiCall(r) ==
    /\ ~server.down
    /\ LET res == BearerAuth(authToken, r)
       IN  server' = [server EXCEPT !.api = [handled |-> TRUE, token |-> authToken,
                                             request |-> r,
                                             status |-> res.status, next |-> res.next,
                                             body |-> res.body]]
    /\ UNCHANGED <<agents, managerVars, watchdogVars>>
    /\ UNCHANGED outsideServer

AuthNext ==
    \/ SetAuthToken("tok")
    \/ \E c \in CookieJars, a \in AuthorizationHeaders : ApiCall(ApiRequest(c, a))

(***************************************************************************)
(* Cloud-init generation (internal/config): the network section merged     *)
(* into a template.  A text is the sequence of its lines, as                *)
(* strings.Split(text, "\n") gives them, and a line a sequence of           *)
(* one-character strings.                                                   *)
(***************************************************************************)
\* strings.HasPrefix
HasPrefix(s, prefix) ==
    Len(s) >= Len(prefix) /\ SubSeq(s, 1, Len(prefix)) = prefix

WhiteSpace == {" ", "\t", "\r", "\n"}

\* strings.TrimSpace
TrimSpace(s) ==
    LET black == {k \in 1..Len(s) : s[k] \notin WhiteSpace}
    IN  IF black = {} THEN << >>
        ELSE SubSeq(s, CHOOSE k \in black : \A j \in black : k <= j,
                       CHOOSE k \in black : \A j \in black : k >= j)

runcmdLine == <<"r", "u", "n", "c", "m", "d", ":">>

usersLine == <<"u", "s", "e", "r", "s", ":">>

itemLine == <<" ", " ", "-", " ", "x">>

tabItemLine == <<"\t", "-", " ", "y">>

commentLine == <<"#", " ", "c">>

\* the lines templates are made of
TemplateLines == {runcmdLine, usersLine, itemLine, tabItemLine, commentLine, << >>}

\* all sequences over a set, of the lengths lo..hi
SeqsOf(S, lo, hi) == UNION {[1..n -> S] : n \in lo..hi}

\* the templates: at least one line (Split never returns none), at most one
\* runcmd key
Templates ==
    {t \in SeqsOf(TemplateLines, 1, MaxLines) :
        Cardinality({k \in 1..Len(t) : t[k] = runcmdLine}) <= 1}

\* buildNetworkSection: the lines of the section; it begins and ends with a
\* line break, its list items are indented and its heredoc bodies are not
buildNetworkSection(script, service, configJSON) ==
    << << >>,
       <<" ", " ", "#", " ", "D", "a", "b", "b", "i">>,
       <<" ", " ", "-", " ", "|">>,
       <<" ", " ", " ", " ", "c", "a", "t">>,
       <<"{", configJSON, "}">>,
       <<"D", "A", "B", "B", "I", "C", "O", "N", "F", "I", "G">>,
       <<" ", " ", "-", " ", "|">>,
       <<"#", "!", script.mode>>,
       <<"D", "A", "B", "B", "I", "S", "C", "R", "I", "P", "T">>,
       <<" ", " ", "-", " ", "|">>,
       <<"[", service, "]">>,
       <<"D", "A", "B", "B", "I", "S", "E", "R", "V", "I", "C", "E">>,
       <<" ", " ", "-", " ", "r", "u", "n">>,
       << >> >>

\* the loop of appendToCloudInit over the lines from k on; st: result,
\* inRuncmd, inserted
RECURSIVE AppendLoop(_, _, _, _)
AppendLoop(lines, k, st, networkSection) ==
    IF k > Len(lines) THEN st
    ELSE LET line == lines[k]
             trimmed == TrimSpace(line)
         IN  IF HasPrefix(trimmed, runcmdLine)
             THEN AppendLoop(lines, k + 1,
                             [st EXCEPT !.inRuncmd = TRUE,
                                        !.result = Append(@, <<line>>)],
                             networkSection)
             ELSE LET exits == /\ st.inRuncmd
                               /\ Len(trimmed) > 0
                               /\ ~HasPrefix(trimmed, <<"-">>)
                               /\ ~HasPrefix(trimmed, <<"#">>)
                               /\ ~HasPrefix(line, <<" ">>)
                               /\ ~HasPrefix(line, <<"\t">>)
                      s1 == IF exits
                            THEN [result |-> IF st.inserted THEN st.result
                                             ELSE Append(st.result, networkSection),
                                  inRuncmd |-> FALSE, inserted |-> TRUE]
                            ELSE st
                  IN  AppendLoop(lines, k + 1,
                                 [s1 EXCEPT !.result = Append(@, <<line>>)],
                                 networkSection)

\* strings.Join(result, "\n") as lines: the lines of the elements in turn
RECURSIVE JoinLines(_)
JoinLines(result) ==
    IF result = << >> THEN << >> ELSE Head(result) \o JoinLines(Tail(result))

\* appendToCloudInit: the loop, then the section appended when the file ends
\* inside runcmd (inserted is left as it is), then a runcmd key and the
\* section appended when nothing was inserted
appendToCloudInit(base, networkSection) ==
    LET st == AppendLoop(base, 1,
                         [result |-> << >>, inRuncmd |-> FALSE, inserted |-> FALSE],
                         networkSection)
        r1 == IF st.inRuncmd /\ ~st.inserted
              THEN Append(st.result, networkSection) ELSE st.result
        r2 == IF ~st.inserted
              THEN Append(Append(r1, << << >>, runcmdLine >>), networkSection)
              ELSE r1
    IN  JoinLines(r2)

\* GenerateCloudInitWithNetwork: the text and the error it returns
GenerateCloudInitWithNetwork(base, netConfig) ==
    IF netConfig.Mode = NetworkModeNone THEN [out |-> base, err |-> Nil]
    ELSE IF ValidateConfig(netConfig) # Nil
    THEN [out |-> << >>, err |-> ValidateConfig(netConfig)]
    ELSE [out |-> appendToCloudInit(base,
                      buildNetworkSection(GenerateIptablesScript(netConfig),
                                          "systemdServiceTemplate",
                                          netConfig.Mode)),
          err |-> Nil]

NoMerge ==
    [pc |-> "new", base |-> << << >> >>, config |-> NetworkConfig(NetworkModeNone, << >>),
     out |-> << >>, err |-> Nil]

CloudInit == cloud = NoMerge

\* the policies a VM is created with
LaunchPolicies ==
    {NetworkConfig(NetworkModeNone, << >>),
     NetworkConfig(NetworkModeIsolated, << >>),
     NetworkConfig(NetworkModeAllowlist, <<NetworkRule("domain", domainGithub)>>),
     NetworkConfig(NetworkModeBlocklist, << >>)}

\* a caller (the create handler, the CLI) merges the policy into the template
Generate ==
    /\ cloud.pc = "new"
    /\ LET g == GenerateCloudInitWithNetwork(cloud.base, cloud.config)
       IN  cloud' = [cloud EXCEPT !.pc = "done", !.out = g.out, !.err = g.err]
    /\ UNCHANGED outsideCloud

\* every template and policy of the workload
MergeInit ==
    /\ RouterInit /\ TunnelInit /\ ConnInit /\ WatchdogInit /\ ShellInit
    /\ ApplierInit /\ ServerInit
    /\ cloud \in {[NoMerge EXCEPT !.base = t, !.config = c] :
                     t \in Templates, c \in LaunchPolicies}

(***************************************************************************)
(* Specifications.                                                         *)
(***************************************************************************)
vars == <<routerVars, tunnelVars, connVars, watchdogVars, shellVars,
          applierVars, serverVars, cloudVars>>

Init ==
    /\ RouterInit /\ TunnelInit /\ ConnInit /\ WatchdogInit /\ ShellInit
    /\ ApplierInit /\ ServerInit /\ CloudInit

Next == RouterNext(Req, WakeInputs, OneIP)

Spec == Init /\ [][Next]_vars

\* the goroutine is scheduled, Start returns, the deadline passes
RouterFairness ==
    \A r \in Req :
        /\ WF_vars(TaskStartCall(r))
        /\ WF_vars(\E ok \in BOOLEAN : TaskStartReturn(r, ok))
        /\ WF_vars(TaskTimeout(r))
        /\ WF_vars(TaskRelease(r))

FairSpec == Spec /\ RouterFairness

DispatchNext ==
    \/ RouterNext(1..NumDispatch, DispatchInputs, IPChoices)
    \/ SetAuthToken("tok")

\* what the engine can report of a VM when the daemon comes up
EngineStates ==
    {[state |-> s, ips |-> << >>, up |-> FALSE] :
        s \in {StateStopped, StateSuspended, StateRunning} \cup Transitional}
    \cup {[state |-> StateRunning, ips |-> ips, up |-> u] :
             ips \in IPChoices, u \in BOOLEAN}

DispatchInit ==
    /\ authToken = ""
    /\ waking = {}
    /\ req = [r \in Req |-> NewReq]
    /\ task = [r \in Req |-> NoTask]
    /\ engine \in [EngineVMs -> EngineStates]
    /\ starts = 0
    /\ stopped = FALSE
    /\ serial = FALSE
    /\ TunnelInit
    /\ ConnInit
    /\ WatchdogInit
    /\ ShellInit
    /\ ApplierInit
    /\ ServerInit
    /\ CloudInit

DispatchSpec == DispatchInit /\ [][DispatchNext]_vars

\* a daemon with or without a domain (NewServer: useTLS := cfg.Domain # ""),
\* and a VM that runs
ProxyInit ==
    /\ authToken = ""
    /\ waking = {}
    /\ req = [r \in Req |-> NewReq]
    /\ task = [r \in Req |-> NoTask]
    /\ engine \in [EngineVMs -> {[state |-> StateRunning, ips |-> ips, up |-> u] :
                                    ips \in IPChoices, u \in BOOLEAN}]
    /\ starts = 0
    /\ stopped = FALSE
    /\ serial = FALSE
    /\ TunnelInit /\ ConnInit /\ WatchdogInit /\ ShellInit /\ ApplierInit /\ CloudInit
    /\ server \in {[NewServer EXCEPT !.useTLS = t] : t \in BOOLEAN}
    /\ agents = {}
    /\ ManagerInit

ProxySpec == ProxyInit /\ [][DispatchNext]_vars

\* the agent listener manager with its callers and goroutines, the VM in any
\* state
ManagerSpec == DispatchInit /\ [][ManagerNext]_vars

\* one request at a time, its Host drawn from the parsing workload, the VM in
\* any state
ParseSpec == DispatchInit /\ [][RouterNext(1..NumDispatch, ParseInputs, OneIP)]_vars

TunnelNext == TunnelOps \/ EngineEnv

TunnelSpec == Init /\ [][TunnelNext]_vars

ConnSpec == Init /\ [][ConnNext]_vars

\* shell requests for the VM the engine knows, in any state, and for one it
\* does not know; every origin, with and without a well-formed handshake
UpgradeNext ==
    \/ \E vm \in EngineVMs \cup {<<"g">>}, c \in OriginCases, h \in BOOLEAN :
           Handle(Info(vm), ShellRequest(c.origin, c.host, h))
    \/ \E q \in Queries : StartWithSize(q)
    \/ StartFail

UpgradeSpec == DispatchInit /\ [][UpgradeNext]_vars

\* API requests before and after the token is configured
AuthSpec == Init /\ [][AuthNext]_vars

\* a running VM with one tunnel, as Create leaves them
DrainInit ==
    /\ authToken = ""
    /\ waking = {}
    /\ req = [r \in Req |-> NewReq]
    /\ task = [r \in Req |-> NoTask]
    /\ engine = [vm \in EngineVMs |-> [state |-> StateRunning, ips |-> <<"ip1">>, up |-> TRUE]]
    /\ starts = 0
    /\ stopped = FALSE
    /\ serial = FALSE
    /\ tunnels = [p \in HostPorts |-> IF p = 1 THEN 1 ELSE 0]
    /\ tun = [t \in TunIds |->
                 IF t = 1 THEN NewTunnel(1, <<"a">>, tunnelVMPort, "ip1") ELSE NoTunnel]
    /\ caller = [c \in Callers |-> Idle]
    /\ ConnInit /\ WatchdogInit /\ ShellInit /\ ApplierInit /\ ServerInit /\ CloudInit

\* the serve goroutine is scheduled
DrainSpec == DrainInit /\ [][DrainNext]_vars /\ \A t \in TunIds : WF_vars(ServeStep(t))

ApplySpec == Init /\ [][ApplierNext(Policies)]_vars

ServerSpec == Init /\ [][ServerNext]_vars

MergeSpec == MergeInit /\ [][Generate]_vars

\* two VMs, idle or loaded
WatchdogSpec ==
    Init /\ [][WatchdogNext({idleStats, Stats(U64(0), U64(0), -1, loadAverageThreshold + 1)},
                            {NoFile})]_vars

\* one running VM (the other is stopped and never listed), every sample
DecideInit ==
    /\ RouterInit /\ TunnelInit /\ ConnInit /\ ShellInit
    /\ ApplierInit /\ ServerInit /\ CloudInit
    /\ wd = New
    /\ guest = [v \in Watched |->
                   [state |-> IF v = "alpha" THEN StateRunning ELSE StateStopped,
                    file |-> NoFile]]
    /\ now = 0
    /\ stops = [v \in Watched |-> 0]
    /\ stopping = [v \in Watched |-> 0]
    /\ last = NoCheck
    /\ steady = [v \in Watched |-> TRUE]
    /\ restartedAt = 0
    /\ stopFailed = [v \in Watched |-> FALSE]

DecideSpec ==
    DecideInit /\ [][WatchdogNext(Samples, {NoFile, Garbage, BadTimestamp})]_vars

\* a shell session with a resize message and keys
ShellSpec == Init /\ [][ShellNext(SessionMsgs, MaxMsgs, {NoSize})]_vars

\* every task of the session is scheduled, a call that can return does, the
\* select of the heartbeat takes a ready case and writeMu goes to a task that
\* waits for it; time passes.  The client and the shell owe nothing.
ShellFairness ==
    /\ WF_vars(ClientReaderSteps({NoSize}) \/ ReadPong)
    /\ WF_vars(HeartbeatSteps)
    /\ WF_vars(ReaderSteps)
    /\ SF_vars(HeartbeatDone)
    /\ SF_vars(HeartbeatLock)
    /\ SF_vars(ReaderLock)
    /\ WF_vars(Period)

\* a shell session whose client sends keys only, with fair scheduling
FairShellSpec == Init /\ [][ShellNext({KeysMsg}, LiveMsgs, {NoSize})]_vars /\ ShellFairness

\* a shell session with every kind of client message
ResizeSpec == Init /\ [][ResizeNext(ResizeWorkload, Queries)]_vars

(***************************************************************************)
(* Wake-on-request.                                                        *)
(***************************************************************************)
VMNames == EngineVMs \cup {<<"g">>}

LiveTasks(vm) ==
    {r \in Req : req[r].vm = vm /\ task[r].pc \in {"spawned", "inStart", "wait", "defer"}}

StartsInFlight(vm) == {r \in Req : req[r].vm = vm /\ task[r].pc = "inStart"}

\* C1: at most one Start per VM name is in flight at any moment, and a Start is
\* only ever in flight (or pending, or being waited on) under the VM's wake
\* ticket, which a single background task holds.
C1_OneStartInFlight ==
    \A vm \in VMNames :
        /\ Cardinality(StartsInFlight(vm)) <= 1
        /\ Cardinality(LiveTasks(vm)) <= 1
        /\ LiveTasks(vm) # {} => vm \in waking

\* a Start is in flight while another request for the VM has been answered
\* with the placeholder without launching anything
C1_Witness ==
    \E r1, r2 \in Req :
        /\ r1 # r2
        /\ task[r1].pc = "inStart"
        /\ req[r2].vm = req[r1].vm
        /\ req[r2].resp = "page"
        /\ ~req[r2].launched

\* C2: when the requests for a stopped VM all overlap in time (none arrived
\* after another was answered, and nobody stopped the VM in between), exactly
\* one Start is issued in total.
C2_ExactlyOneStart ==
    (/\ ~serial
     /\ ~stopped
     /\ \E r \in Req : req[r].resp = "page"
     /\ \A r \in Req : task[r].pc # "spawned")
    => starts = 1

\* a request that found the VM stopped or suspended got the placeholder
C3_Placeholder ==
    \A r \in Req :
        (req[r].pc = "done" /\ req[r].asked /\ ~req[r].info.err
         /\ req[r].info.state \in {StateStopped, StateSuspended})
        => req[r].resp = "page"

\* a request that finds the ticket free launches a background task
C3_Rewake ==
    \A r \in Req :
        (req[r].pc = "wake" /\ req'[r].pc = "done" /\ req[r].vm \notin waking)
        => (task'[r].pc = "spawned" /\ req'[r].launched /\ req'[r].resp = "page")

\* C3: a held ticket is eventually released, whatever the outcome of the
\* background task; a request that finds the VM stopped or suspended is
\* answered with the placeholder whatever happened before; one that finds the
\* ticket free launches a background task, whose Start is then issued.
C3_ReleaseAndRewake ==
    /\ \A vm \in VMNames : (vm \in waking) ~> (vm \notin waking)
    /\ \A r \in Req : (task[r].pc = "spawned") ~> (task[r].pc = "inStart")
    /\ []C3_Placeholder
    /\ [][C3_Rewake]_vars

\* a Start failed, its ticket was released, and a later request for the VM,
\* still stopped, launched a second Start and got the placeholder
C3_Witness ==
    \E r1, r2 \in Req :
        /\ r1 # r2
        /\ task[r1].pc = "done" /\ task[r1].failed
        /\ req[r2].vm = req[r1].vm
        /\ ~req[r2].held
        /\ req[r2].resp = "page" /\ req[r2].launched
        /\ task[r2].pc = "inStart"
        /\ starts = 2

\* C4: a request that arrives while its VM's wake ticket is held is answered
\* with the placeholder page.
C4_PlaceholderWhileHeld ==
    \A r \in Req :
        (req[r].pc = "done" /\ req[r].held) => req[r].resp = "page"

(***************************************************************************)
(* Dispatch.                                                               *)
(***************************************************************************)
MatchingHosts == {hostVM, hostAgent, hostGhost}

PlainHosts == {hostPlain, hostNoPort}

\* the recorded Info result against the position or response of the request
C5_Outcome ==
    \A r \in Req :
        req[r].asked =>
            LET i == req[r].info
                q == req[r]
            IN  /\ i.err => (q.pc = "done" /\ q.resp = "404")
                /\ (~i.err /\ i.state \in {StateStopped, StateSuspended})
                      => (q.pc = "wake" \/ (q.pc = "done" /\ q.resp = "page"))
                /\ (~i.err /\ i.state = StateRunning /\ i.ips = << >>)
                      => (q.pc = "done" /\ q.resp = "503noip")
                /\ (~i.err /\ i.state = StateRunning /\ i.ips # << >>)
                      => /\ q.target = <<i.ips[1], q.port>>
                         /\ q.pc = "proxy"
                            \/ (q.pc = "done" /\ q.resp \in {"proxied", "502"})
                /\ (~i.err /\ i.state \notin {StateStopped, StateSuspended, StateRunning})
                      => (q.pc = "done" /\ q.resp = "503state")
                /\ q.launched
                      => (~i.err /\ i.state \in {StateStopped, StateSuspended})

\* the Info step reads the engine; the proxy step answers 502 exactly when the
\* upstream cannot be reached
C5_InfoAndUpstream ==
    \A r \in Req :
        /\ (req[r].pc = "info" /\ req'[r].pc # "info")
              => /\ req'[r].info.err = (req[r].vm \notin EngineVMs)
                 /\ req[r].vm \in EngineVMs
                       => /\ req'[r].info.state = engine[req[r].vm].state
                          /\ req'[r].info.ips = engine[req[r].vm].ips
        /\ (req[r].pc = "proxy" /\ req'[r].pc = "done")
              => (req'[r].resp = "502") = ~Reachable(req[r].vm, req[r].target[1])

\* C5: once Info has been called, its result alone decides the outcome: an
\* error gives 404; Stopped or Suspended gives wake-on-request (placeholder);
\* Running without IPv4 gives 503; Running with IPv4 is proxied to the first
\* IPv4 at the VM port, 502 when the upstream cannot be reached; any other
\* state gives 503, and no Start is launched outside wake-on-request.
C5_DispatchByInfo == []C5_Outcome /\ [][C5_InfoAndUpstream]_vars

\* a request was proxied to the first of the VM's two addresses
C5_Witness ==
    \E r \in Req :
        /\ req[r].pc = "done"
        /\ req[r].resp = "proxied"
        /\ req[r].info.ips = <<"ip2", "ip1">>
        /\ req[r].target = <<"ip2", 8>>

\* C6: a request whose Host does not match the VM pattern goes to the next
\* handler as it came and causes no hypervisor call; one whose Host matches is
\* answered by the router and never reaches the next handler.
C6_PassThrough ==
    \A r \in Req :
        req[r].pc # "new" =>
            /\ req[r].host \in PlainHosts
                  => /\ req[r].pc = "done" /\ req[r].resp = "next"
                     /\ req[r].passed = [host |-> req[r].host, cred |-> req[r].cred]
                     /\ ~req[r].asked /\ ~req[r].launched /\ task[r].pc = "none"
            /\ req[r].host \in MatchingHosts
                  => /\ req[r].resp # "next"
                     /\ req[r].passed = NoPass
                     /\ req[r].vm = SubSeq(req[r].host, 1, 1)

\* a request for an unknown VM, with a port suffix on its Host, was answered 404
C6_Witness ==
    \E r \in Req :
        /\ req[r].host = hostGhost
        /\ req[r].resp = "404"

\* the first non-empty of query parameter, header and cookie
FirstPresented(cred) ==
    IF cred.query # "" THEN cred.query
    ELSE IF cred.header # "" THEN cred.header
    ELSE cred.cookie

\* C7: on the agent port with a token configured, a request is dispatched only
\* if the first non-empty of query, header and cookie equals the token;
\* otherwise it is answered 401 with no Info, no Start and no upstream. Other
\* ports, and routers without a token, never answer 401.
C7_AgentAuth ==
    \A r \in Req :
        (req[r].pc # "new" /\ req[r].host \in MatchingHosts) =>
            IF req[r].host = hostAgent /\ authToken # ""
            THEN IF FirstPresented(req[r].cred) = authToken
                 THEN req[r].resp # "401"
                 ELSE /\ req[r].pc = "done" /\ req[r].resp = "401"
                      /\ ~req[r].asked /\ ~req[r].launched
                      /\ task[r].pc = "none" /\ req[r].target = << >>
            ELSE req[r].resp # "401"

\* a request with a wrong query token and the right cookie was refused
C7_Witness ==
    \E r \in Req :
        /\ req[r].host = hostAgent
        /\ req[r].cred = Cred("bad", "", "tok")
        /\ req[r].resp = "401"

(***************************************************************************)
(* The tunnel manager.                                                     *)
(***************************************************************************)
Recorded == {tunnels[p] : p \in HostPorts} \ {0}

\* C8: every record in the tunnel map owns an open listener bound to its host
\* port, and sits under that port as its key; a listener is open before its
\* record is inserted and is closed only after a Delete has removed the record.
C8_RecordsOwnListeners ==
    /\ \A p \in HostPorts :
          tunnels[p] # 0 =>
              /\ tun[tunnels[p]].made
              /\ tun[tunnels[p]].open
              /\ tun[tunnels[p]].lsnCloses = 0
              /\ tun[tunnels[p]].hostPort = p
    /\ \A t \in TunIds :
          /\ (tun[t].made /\ ~tun[t].open) => (tun[t].taken >= 1 /\ t \notin Recorded)
          /\ tun[t].open => tun[t].hostPort \in HostPorts
    /\ \A t, u \in TunIds :
          (t # u /\ tun[t].open /\ tun[u].open) => tun[t].hostPort # tun[u].hostPort

\* a deleted tunnel's port has been assigned again and holds another record
C8_Witness ==
    \E p \in HostPorts, t \in TunIds :
        /\ tunnels[p] # 0
        /\ tunnels[p] # t
        /\ tun[t].hostPort = p
        /\ tun[t].lsnCloses = 1
        /\ ~tun[t].open

\* a tunnel is taken out of the map at most once, and closed only by its taker
C9_ClosedOnce ==
    \A t \in TunIds :
        /\ tun[t].taken <= 1
        /\ tun[t].doneCloses <= tun[t].taken
        /\ tun[t].lsnCloses <= tun[t].doneCloses

\* what the lookup and the last step of a Delete do
C9_DeleteSteps ==
    \A c \in Callers :
        /\ (caller[c].pc = "d_lookup" /\ caller'[c].pc # "d_lookup")
              => IF tunnels[caller[c].port] = 0
                 THEN /\ caller'[c] = Returned("delete", "tunnel not found")
                      /\ UNCHANGED <<tunnels, tun>>
                 ELSE /\ caller'[c].pc = "d_done"
                      /\ caller'[c].t = tunnels[caller[c].port]
                      /\ tunnels'[caller[c].port] = 0
        /\ (caller[c].pc = "d_listener" /\ caller'[c].pc # "d_listener")
              => /\ caller'[c] = Returned("delete", "ok")
                 /\ tun'[caller[c].t].doneCloses = 1
                 /\ tun'[caller[c].t].lsnCloses = 1
                 /\ ~tun'[caller[c].t].open

\* C9: of the Delete calls on one tunnel exactly one finds the record; it
\* closes the tunnel's done channel and its listener once each and returns
\* success. A Delete that finds no record under its port returns "tunnel not
\* found" and changes neither the map nor any tunnel.
C9_DeleteOnce == []C9_ClosedOnce /\ [][C9_DeleteSteps]_vars

\* one Delete has taken a tunnel's record while a second Delete of the same
\* port is about to look it up
C9_Witness ==
    \E c1, c2 \in Callers :
        /\ c1 # c2
        /\ caller[c1].pc = "d_done"
        /\ caller[c2].pc = "d_lookup"
        /\ caller[c2].port = tun[caller[c1].t].hostPort
        /\ tunnels[caller[c2].port] = 0

\* what the Info step of a Create does, against the engine
C10_CreateSteps ==
    \A c \in Callers :
        (caller[c].pc = "c_info" /\ caller'[c].pc # "c_info") =>
            LET vm == caller[c].vm
                known == vm \in EngineVMs
                running == known /\ engine[vm].state = StateRunning
                hasIP == known /\ engine[vm].ips # << >>
            IN  /\ ~known
                      => caller'[c] = Returned("create", "failed to get VM info")
                /\ (known /\ ~running)
                      => caller'[c] = Returned("create", "VM is not running")
                /\ (running /\ ~hasIP)
                      => caller'[c] = Returned("create", "VM has no IP address")
                /\ (running /\ hasIP)
                      => /\ caller'[c].pc = "c_listen"
                         /\ caller'[c].ip = engine[vm].ips[1]
                /\ caller'[c].pc = "idle" => UNCHANGED <<tunnels, tun>>

\* every tunnel ever made leads to an address of a known VM
C10_OnlyRunningWithIP ==
    \A t \in TunIds :
        tun[t].made => (tun[t].vmName \in EngineVMs /\ tun[t].vmIP = "ip1")

\* C10: Create goes on to bind a listener only if Info succeeds, the VM is
\* Running and it has an IPv4; otherwise it returns the error of the first
\* check that fails (Info failed, not running, no IP: three different
\* errors), binds nothing and leaves the map as it was.
C10_CreateChecks == []C10_OnlyRunningWithIP /\ [][C10_CreateSteps]_vars

\* one Create was refused because the VM was not running, another because the
\* VM had no address yet, and no tunnel was made
C10_Witness ==
    \E c1, c2 \in Callers :
        /\ caller[c1] = Returned("create", "VM is not running")
        /\ caller[c2] = Returned("create", "VM has no IP address")
        /\ \A t \in TunIds : ~tun[t].made
        /\ \A p \in HostPorts : tunnels[p] = 0

(***************************************************************************)
(* A tunneled connection.                                                  *)
(***************************************************************************)
\* a copy task that is still copying writes to a connection whose write half
\* is open, and both connections are open
C11_CopyingStaysOpen ==
    \A d \in Dirs :
        copy[d].pc \in {"read", "write"}
            => /\ sock[Dst(d)].wr
               /\ \A s \in Sides : sock[s].open

\* a copy task that has finished has half-closed the connection it wrote to
C11_HalfClosed ==
    \A d \in Dirs : copy[d].pc = "done" => ~sock[Dst(d)].wr

\* a connection is closed only when both copy tasks have finished (or when
\* the dial failed and none was started)
C11_ClosedAfterBoth ==
    \A s \in Sides :
        (hconn.pc # "idle" /\ ~sock[s].open /\ (s = "client" \/ hconn.dialed))
            => \A d \in Dirs : copy[d].pc = (IF hconn.dialed THEN "done" ELSE "none")

\* the step a copy task takes once its source has ended: it half-closes the
\* opposite connection only, and the other task is left as it is
C11_EndStep ==
    \A d \in Dirs :
        (copy[d].pc = "closeWrite" /\ copy'[d] # copy[d])
            => /\ copy'[d].pc = "done"
               /\ ~sock'[Dst(d)].wr
               /\ sock'[Dst(d)].open
               /\ sock'[Src(d)] = sock[Src(d)]
               /\ copy'[OtherDir(d)] = copy[OtherDir(d)]

\* C11: when one side reaches EOF the handler half-closes the write side of
\* the opposite connection and nothing else, so the opposite direction keeps
\* copying; both connections are closed only after both copy tasks finished.
C11_HalfCloseThenClose ==
    /\ []C11_CopyingStaysOpen
    /\ []C11_HalfClosed
    /\ []C11_ClosedAfterBoth
    /\ [][C11_EndStep]_vars

\* the client has sent FIN and the target's write half is closed, while the
\* other direction holds a chunk it goes on to write to the client
C11_Witness ==
    /\ copy["up"].pc = "done" /\ ~copy["up"].err
    /\ ~sock["target"].wr
    /\ copy["down"].pc = "write"
    /\ copy["down"].chunk # << >>
    /\ sock["client"].wr /\ ~peer["client"].gone

IsPrefix(a, b) == Len(a) <= Len(b) /\ SubSeq(b, 1, Len(a)) = a

\* a direction has drained: its source ended with EOF and the copy saw no error
Drained(d) == copy[d].pc \in {"closeWrite", "done"} /\ ~copy[d].err

\* C12: in each direction the bytes handed to the receiving side are at all
\* times a prefix of the bytes the sending side wrote, and are all of them
\* once the direction has drained.
C12_ByteExact ==
    \A d \in Dirs :
        /\ IsPrefix(recv[Dst(d)], peer[Src(d)].sent)
        /\ Drained(d) => recv[Dst(d)] = peer[Src(d)].sent

\* two different bytes went through one direction in order and it has drained,
\* while the other direction has delivered bytes too
C12_Witness ==
    \E d \in Dirs :
        /\ Drained(d)
        /\ copy[d].rd = 2
        /\ recv[Dst(d)] = <<"x", "y">>
        /\ recv[Src(d)] # << >>

(***************************************************************************)
(* The activity watchdog.                                                  *)
(***************************************************************************)
\* a check of a VM takes place in this step
Checks(v) == wd.pc = "loop" /\ wd.todo # << >> /\ Head(wd.todo) = v /\ wd' # wd

\* |a - b| + |c - d| > n in the naturals, for n below 2^16 * 2^16
ExactDeltaExceeds(a, b, c, d, n) ==
    LET x == absDiff(a, b)
        y == absDiff(c, d)
    IN  \/ ExceedsU64(x, n)
        \/ ExceedsU64(y, n)
        \/ (x[2] * 65536 + x[1]) + (y[2] * 65536 + y[1]) > n

\* C13: in one tick Stop is issued for a VM if and only if the VM is listed as
\* Running, its sample was read, no PTY idle time lies in [0, timeout), load
\* is at most 0.1, the checkpoint was read and has a parseable timestamp,
\* |drx| + |dtx| against the checkpoint is at most 100000, and the
\* checkpoint is older than the timeout.
C13_StopIff ==
    [][\A v \in Watched :
          (stops'[v] # stops[v])
          <=> /\ Checks(v)
              /\ last'.statsOK
              /\ ~(last'.stats.PTYIdleSeconds >= 0
                   /\ last'.stats.PTYIdleSeconds < TimeoutMins * 60)
              /\ last'.stats.LoadAverage1Min <= 10
              /\ last'.readOK
              /\ guest[v].file.kind = "json" /\ guest[v].file.tsok
              /\ ~ExactDeltaExceeds(last'.stats.RxBytes, guest[v].file.rx,
                                    last'.stats.TxBytes, guest[v].file.tx, 100000)
              /\ now - guest[v].file.ts > TimeoutMins]_vars

C15_FailedCheckStep ==
    \A v \in Watched :
        (Checks(v) /\ ~last'.statsOK)
            => /\ UNCHANGED <<guest, stops, stopping>>
               /\ wd'.pc = "loop"
               /\ wd'.todo = Tail(wd.todo)

\* a check touches the checkpoint and the Stop count of its own VM only
C15_OwnVMOnly ==
    \A v, u \in Watched :
        (Checks(v) /\ u # v)
            => /\ guest'[u] = guest[u]
               /\ stops'[u] = stops[u]

\* the loop ends only when every listed VM has been checked
C15_LoopEnds ==
    (wd.pc = "loop" /\ wd'.pc = "idle") => wd.todo = << >>

\* C15: when the sample of one Running VM cannot be read, no checkpoint is
\* written and no Stop issued for it in that tick, and every other Running VM
\* of the tick is still checked, by its own sample and checkpoint alone.
C15_ExecFailureIsLocal ==
    /\ [][C15_FailedCheckStep]_vars
    /\ [][C15_OwnVMOnly]_vars
    /\ [][C15_LoopEnds]_vars

\* the first VM's sample could not be read, and the second VM of the same tick
\* was found loaded and got its checkpoint
C15_Witness ==
    /\ wd.pc = "loop"
    /\ wd.skipped = {"alpha"}
    /\ wd.todo = << >>
    /\ last.v = "beta" /\ last.act = "write"
    /\ guest["beta"].file.kind = "json" /\ guest["beta"].file.ts = now
    /\ guest["alpha"].file = NoFile

\* the action the policy prescribes for a sample, the checkpoint in the VM,
\* the time and the timeout
Policy(stats, file, t, timeout) ==
    IF (stats.PTYIdleSeconds >= 0 /\ stats.PTYIdleSeconds < timeout * 60)
       \/ stats.LoadAverage1Min > loadAverageThreshold
    THEN "write"
    ELSE IF file.kind # "json" \/ ~file.tsok THEN "write"
    ELSE IF ExceedsU64(totalDelta(stats, file), networkNoiseBytes) THEN "write"
    ELSE IF t - file.ts > timeout THEN "stop"
    ELSE "none"

\* what a check does follows from the sample, the checkpoint file, the time
\* and the timeout
C16_CheckByPolicy ==
    \A v \in Watched :
        (Checks(v) /\ last'.statsOK /\ last'.readOK)
            => /\ last'.act = Policy(last'.stats, guest[v].file, now, TimeoutMins)
               /\ (stops'[v] # stops[v]) = (last'.act = "stop")
               /\ (guest'[v].file # guest[v].file) => last'.act = "write"

\* between ticks the watchdog is as watchdog.New leaves it
C16_NothingKept == wd.pc = "idle" => wd = New

\* a restart changes nothing a check reads
C16_RestartStep ==
    (restartedAt' # restartedAt) => UNCHANGED <<wd, guest, now, stops, stopping>>

\* C16: the watchdog keeps nothing about a VM between ticks: between ticks
\* its state is that of a new watchdog, a restart changes nothing a check
\* reads, and what a check does follows from the sample, the checkpoint in
\* the VM, the time and the timeout.
C16_Stateless ==
    /\ []C16_NothingKept
    /\ [][C16_RestartStep]_vars
    /\ [][C16_CheckByPolicy]_vars

\* a Stop was issued on a checkpoint written before the daemon's restart
C16_Witness ==
    /\ last.act = "stop"
    /\ stops[last.v] = 1
    /\ restartedAt > 0
    /\ guest[last.v].file.kind = "json"
    /\ guest[last.v].file.ts < restartedAt
    /\ restartedAt < now

C18_TeardownOnce ==
    ptmx.started =>
        /\ Len(teardown) <= Len(Cleanup)
        /\ teardown = SubSeq(Cleanup, 1, Len(teardown))
        /\ done.closes <= 1
        /\ (done.calls > 0 => done.closes = 1)
        /\ (shell.pc = "ended" => teardown = Cleanup /\ done.closes = 1)
        /\ (teardown # << >> => done.closes = 1)

\* the session has ended after all three tasks called closeDone
C18_Witness ==
    /\ ptmx.started
    /\ shell.pc = "ended"
    /\ teardown = Cleanup
    /\ done.calls = 3
    /\ done.closes = 1

\* the PTY is closed, the child killed or gone and reaped, the connection
\* closed, and Handle, the heartbeat and the PTY reader have returned
Destroyed ==
    /\ shell.pc = "ended"
    /\ ~ptmx.open
    /\ cmd.state \in {"killed", "exited"}
    /\ cmd.reaped
    /\ ~ws.open
    /\ heartbeat = "exited"
    /\ ptyReader = "exited"

\* C19: a started session whose client has disconnected, whose child has
\* exited or whose read deadline has passed is eventually destroyed.
C19_EventuallyDestroyed ==
    (ptmx.started
     /\ (browser.gone \/ cmd.state = "exited" \/ ws.sincePong >= PeriodsToDeadline))
        ~> Destroyed

\* the child exited while the client stayed and answered, and the session
\* has been destroyed
C19_Witness ==
    /\ Destroyed
    /\ cmd.state = "exited"
    /\ ~browser.gone
    /\ browser.answers

\* the messages of ResizeWorkload that are text frames, begin with a brace
\* and parse as a resize message, and the window size each of them gives
WantResize ==
    {ResizeMsg, Message(TextMessage, <<LBrace, StrMember("type", "resize"), RBrace>>)}

WantRows(msg) == IF msg = ResizeMsg THEN 40 ELSE 0

WantCols(msg) == IF msg = ResizeMsg THEN 120 ELSE 0

RECURSIVE Forwarded(_)
\* the bytes of the messages that are no resize messages, in order
Forwarded(msgs) ==
    IF msgs = << >> THEN << >>
    ELSE (IF Head(msgs) \in WantResize THEN << >> ELSE Head(msgs).data)
         \o Forwarded(Tail(msgs))

\* the PTY has been given, or Handle still holds, exactly the bytes of the
\* messages read so far that are no resize messages, in the client's order
C20_ForwardedInOrder ==
    /\ ptmx.input \o shell.data = Forwarded(handled)
    /\ Len(handled) + Len(inbox) = browser.sent

\* the step that reads a message: a resize message sets the window size and
\* leaves nothing to write; any other leaves the size alone and its bytes
\* are what Handle writes next
C20_ReadStep ==
    handled' # handled =>
        LET msg == handled'[Len(handled')]
        IN  /\ msg = Head(inbox)
            /\ ptmx'.input = ptmx.input
            /\ IF msg \in WantResize
               THEN /\ ptmx'.rows = WantRows(msg) /\ ptmx'.cols = WantCols(msg)
                    /\ shell'.data = << >>
               ELSE /\ ptmx'.rows = ptmx.rows /\ ptmx'.cols = ptmx.cols
                    /\ shell'.data = msg.data

\* the PTY's input and window size change in no other way
C20_WriteStep ==
    /\ ptmx'.input # ptmx.input
           => ptmx'.input = ptmx.input \o shell.data /\ shell'.data = << >>
    /\ (ptmx.started /\ (ptmx'.rows # ptmx.rows \/ ptmx'.cols # ptmx.cols))
           => handled' # handled

\* C20: a text frame that begins with a brace and parses as a resize message
\* sets the window size to its rows and cols and is not written to the PTY;
\* every other message is written to the PTY unchanged, in the order sent.
C20_ResizeOrForward ==
    [](ptmx.started => C20_ForwardedInOrder) /\ [][C20_ReadStep /\ C20_WriteStep]_vars

\* the resize message has set the size, and the same bytes sent as a binary
\* frame have been written to the PTY
C20_Witness ==
    /\ handled = <<ResizeMsg, Message(BinaryMessage, resizeBytes)>>
    /\ ptmx.rows = 40 /\ ptmx.cols = 120
    /\ ptmx.input = resizeBytes
    /\ shell.data = << >>

(***************************************************************************)
(* The network applier.                                                    *)
(***************************************************************************)
\* the policies of the workload that TestValidateConfig's cases reject: an
\* unknown mode, a list mode without rules, a list mode with a bad IP, a
\* CIDR without slash, a domain with a space, an empty value, an unknown type
RejectedPolicies ==
    {NetworkConfig("open", << >>), NetworkConfig("open", <<NetworkRule("ip", ip256)>>),
     NetworkConfig(NetworkModeAllowlist, << >>),
     NetworkConfig(NetworkModeBlocklist, << >>),
     NetworkConfig(NetworkModeBlocklist,
                   <<NetworkRule("ip", ip8888), NetworkRule("cidr", cidrNoSlash)>>)}
    \cup {NetworkConfig(NetworkModeAllowlist, <<NetworkRule(t, v)>>) :
             t \in {"ip"}, v \in {ip256, ipZeros, ipShort, << >>}}
    \cup {NetworkConfig(NetworkModeAllowlist, <<NetworkRule("cidr", cidrNoSlash)>>),
          NetworkConfig(NetworkModeAllowlist, <<NetworkRule("domain", domainSpace)>>),
          NetworkConfig(NetworkModeAllowlist, <<NetworkRule("host", domainGithub)>>)}

\* C21: ApplyToVM on a policy that fails validation returns the validation
\* error having made no temp dir on the host and no Exec or Transfer on the
\* VM, whose files, units and rules are as they were when it was called.
C21_ErrorBeforeSideEffects ==
    (ap.pc # "idle" /\ ap.config \in RejectedPolicies) =>
        /\ ap.pc = "done"
        /\ ap.msg = "invalid network config"
        /\ ap.cause # Nil
        /\ ap.made = 0 /\ ~ap.tmpDir
        /\ issued = << >>
        /\ vmfs = ap.before

\* a rejected apply on a VM that an earlier apply has configured
C21_Witness ==
    /\ ap.pc = "done" /\ ap.config \in RejectedPolicies
    /\ ap.config.Mode = NetworkModeAllowlist /\ ap.cause.rule = 1
    /\ vmfs.rules # << >>

\* C22: a policy holding an invalid rule is rejected whatever its mode: the
\* apply returns the validation error with no Exec and no Transfer made, and
\* the VM's files, units and rules are as they were.
C22_InvalidRuleRejected ==
    (ap.pc # "idle" /\ \E k \in 1..Len(ap.config.Rules) : ap.config.Rules[k] \in InvalidRules) =>
        /\ ap.pc = "done"
        /\ ap.msg = "invalid network config"
        /\ issued = << >>
        /\ vmfs = ap.before

\* the name each step's error carries, by its place in the installation
WantStepName ==
    <<"failed to create network dir in VM", "failed to transfer config",
      "failed to transfer script", "failed to transfer service",
      "failed to install config", "failed to install script",
      "failed to install service", "failed to make script executable",
      "failed to reload systemd", "failed to enable service",
      "failed to apply rules">>

\* the kinds of call of the installation, in order
WantCalls ==
    <<"Exec", "Transfer", "Transfer", "Transfer", "Exec", "Exec", "Exec", "Exec",
      "Exec", "Exec", "Exec">>

\* the calls made so far are the first steps in their order, and a failed
\* one is the last
C23_IssuedInOrder ==
    /\ Len(issued) <= Len(WantCalls)
    /\ \A k \in 1..Len(issued) : issued[k] = k /\ Steps[issued[k]].call = WantCalls[k]
    /\ ap.failed # 0 =>
          /\ ap.pc = "done"
          /\ Len(issued) = ap.failed
          /\ ap.msg = WantStepName[ap.failed]

\* the error of a failed call is returned at once, under the step's name and
\* with the call's error as its cause
C23_ErrorWrapsCause ==
    \A cause \in Causes :
        ApplyStep(FALSE, cause) =>
            /\ ap'.pc = "done"
            /\ ap'.msg = WantStepName[Len(issued) + 1]
            /\ ap'.cause = cause

\* C23: the calls ApplyToVM has made on the VM are the first steps of the
\* installation in their order, each made once; when one has failed it is the
\* last one made, ApplyToVM has returned, and its error has that step's name
\* and the error the call failed with as its cause.
C23_StopsAtFirstFailure == []C23_IssuedInOrder /\ [][C23_ErrorWrapsCause]_vars

\* the install of the script has failed after the config was installed
C23_Witness ==
    /\ ap.pc = "done" /\ ap.failed = 6 /\ Len(issued) = 6
    /\ ap.cause = Error("context deadline exceeded", 0)
    /\ vmfs.files[vmConfigFile] # << >>

\* C24: once an ApplyToVM has returned nil, a GetCurrentConfig that succeeds
\* returns the policy of the last ApplyToVM or RemoveFromVM that returned nil:
\* the same mode and the same rules in the same order.
C24_ReadsLastApplied ==
    (current.read /\ current.err = "" /\ lastOK # << >>) =>
        /\ current.config # << >>
        /\ current.config[1].Mode = lastOK[1].Mode
        /\ current.config[1].Rules = lastOK[1].Rules

(***************************************************************************)
(* The server.                                                             *)
(***************************************************************************)
\* C25: when Shutdown returns the watchdog has been told to stop, no tunnel
\* listener is open, no shell session has its connection or its PTY open,
\* and no agent listener is left.
C25_ShutdownClosesAll ==
    [][Shutdown =>
          /\ server'.stopCh = "closed"
          /\ \A t \in TunIds : ~tun'[t].open
          /\ ~ws'.open /\ ~ptmx'.open
          /\ agents' = {}]_vars

(***************************************************************************)
(* Cloud-init generation.                                                  *)
(***************************************************************************)
\* the section generated for the policy of the call
WantSection ==
    buildNetworkSection(GenerateIptablesScript(cloud.config), "systemdServiceTemplate",
                        cloud.config.Mode)

\* the places of the output where the section stands
SectionPlaces ==
    {k \in 1..Len(cloud.out) :
        /\ k + Len(WantSection) - 1 <= Len(cloud.out)
        /\ SubSeq(cloud.out, k, k + Len(WantSection) - 1) = WantSection}

\* the lines of a text that are the runcmd key
RuncmdKeys(text) == {k \in 1..Len(text) : text[k] = runcmdLine}

\* C26: a merge of a policy other than none puts the network section into
\* the output exactly once.  When the template has a runcmd key the output
\* has that one runcmd key and the section stands after it with no other
\* top-level key in between; when it has none the output is the template, an
\* empty line, a runcmd key and the section.
C26_SectionOnceInRuncmd ==
    (cloud.pc = "done" /\ cloud.err = Nil /\ cloud.config.Mode # NetworkModeNone) =>
        /\ Cardinality(SectionPlaces) = 1
        /\ IF RuncmdKeys(cloud.base) # {}
           THEN /\ RuncmdKeys(cloud.out) = RuncmdKeys(cloud.base)
                /\ \A k \in SectionPlaces, r \in RuncmdKeys(cloud.base) :
                       /\ r < k
                       /\ \A j \in (r + 1)..(k - 1) : cloud.out[j] # usersLine
           ELSE cloud.out = cloud.base \o << << >>, runcmdLine >> \o WantSection

(***************************************************************************)
(* The router: transitional states, forwarded headers, the agent cookie.   *)
(***************************************************************************)
\* the requests whose Info call found the VM in a transitional state
SawTransitional ==
    {r \in Req : req[r].asked /\ ~req[r].info.err /\ req[r].info.state \in Transitional}

\* C27 as stated: a request that finds the VM Starting, Restarting,
\* Suspending or Unknown goes through wake-on-request and gets the
\* placeholder page, as for a Stopped VM.
C27_TransitionalWakes ==
    \A r \in SawTransitional :
        /\ req[r].pc \in {"wake", "done"}
        /\ req[r].pc = "done" => req[r].resp = "page"

\* C27 amended: a request that finds the VM Starting, Restarting, Suspending
\* or Unknown is answered 503 at once, unlike one for a Stopped VM: it takes
\* no wake ticket and launches no Start.
C27_TransitionalUnavailable ==
    \A r \in SawTransitional :
        /\ req[r].pc = "done"
        /\ req[r].resp = "503state"
        /\ ~req[r].launched
        /\ task[r].pc = "none"

\* a request for a restarting VM was refused
C27_Witness ==
    \E r \in SawTransitional :
        /\ req[r].info.state = "Restarting"
        /\ req[r].pc = "done" /\ req[r].resp = "503state"

\* the requests handed to the reverse proxy
Proxied == {r \in Req : req[r].upstream.sent}

\* the decimal text of the ports of the workload
WantPortText(port) ==
    CASE port = 8 -> <<"8">>
      [] port = agentPort -> <<"1", "2", "3", "4">>

\* C28: the upstream request of every proxied request has the target, the
\* VM's first address and the port, as its Host, and the Host the client
\* sent as its X-Forwarded-Host.
C28_HostAndForwardedHost ==
    \A r \in Proxied :
        /\ req[r].upstream.Host
              = <<req[r].info.ips[1], ":">> \o WantPortText(req[r].port)
        /\ req[r].upstream.XForwardedHost = req[r].host

\* C29: the upstream request of every proxied request has X-Forwarded-Proto
\* https when the daemon terminates TLS and http when it does not.
C29_ForwardedProto ==
    \A r \in Proxied :
        req[r].upstream.XForwardedProto = IF server.useTLS THEN "https" ELSE "http"

\* the cookie the claim describes
WantCookie ==
    [Name |-> "dabbi_agent_token", Value |-> authToken, Path |-> "/", HttpOnly |-> TRUE,
     Secure |-> TRUE, SameSite |-> "Strict", MaxAge |-> 86400]

\* the agent-port check ran on request r and let it through
AuthSucceeded(r) ==
    /\ req[r].pc # "new"
    /\ req[r].host = hostAgent
    /\ authToken # ""
    /\ req[r].resp # "401"

\* C30: a response carries the agent session cookie exactly when the
\* agent-port check succeeded on a request that had the token in its query
\* parameter or its header; the cookie then has the token as value and is
\* HttpOnly, Secure, SameSite=Strict with Max-Age 86400.  A request admitted
\* by its cookie alone, and one answered 401, get no cookie.
C30_CookieIffPresented ==
    \A r \in Req :
        /\ (req[r].setCookie # << >>)
              <=> /\ AuthSucceeded(r)
                  /\ req[r].cred.query = authToken \/ req[r].cred.header = authToken
        /\ req[r].setCookie # << >> => req[r].setCookie = <<WantCookie>>
        /\ req[r].resp = "401" => req[r].setCookie = << >>
        /\ (req[r].cred.query = "" /\ req[r].cred.header = "") => req[r].setCookie = << >>

\* a request admitted by its header got the cookie, and was proxied
C30_Witness ==
    \E r \in Req :
        /\ req[r].cred = Cred("", "tok", "bad")
        /\ req[r].resp = "proxied"
        /\ req[r].setCookie = <<WantCookie>>

\* a request admitted by its cookie alone got none
C30_CookieOnlyWitness ==
    \E r \in Req :
        /\ req[r].cred = Cred("", "", "tok")
        /\ AuthSucceeded(r) /\ req[r].pc = "done"
        /\ req[r].setCookie = << >>

(***************************************************************************)
(* C31: whatever the mode and the user rules, the rule set of the rendered *)
(* script accepts loopback traffic, traffic to and from the gateway subnet *)
(* and traffic of established connections.                                 *)
(***************************************************************************)
\* the traffic the script is to let through always, stated on the packet
ProtectedPackets ==
    {pkt \in Packets :
        \/ pkt.iface = "lo"
        \/ pkt.state = "ESTABLISHED"
        \/ pkt.addr = gatewayIP}

\* C31: once the rules of a script are in effect in the VM, every loopback,
\* gateway-subnet and established packet is accepted
C31_ProtectedTrafficAccepted ==
    vmfs.rules # << >> =>
        \A pkt \in ProtectedPackets :
            Verdict(scriptTemplate(vmfs.rules[1]), pkt) = "ACCEPT"

(***************************************************************************)
(* C32: which rules the validation accepts.                                *)
(***************************************************************************)
\* the decimal numerals of 0..255, none with a leading zero
OctetNumerals == {Itoa(n) : n \in 0..255}

WhitespaceChars == {" ", "\t", "\n", "\r"}

\* the rules the validation rules call valid
WantAccept(rule) ==
    /\ rule.Value # << >>
    /\ CASE rule.Type = "ip" ->
              LET parts == Split(rule.Value, ".")
              IN  Len(parts) = 4 /\ \A k \in 1..4 : parts[k] \in OctetNumerals
         [] rule.Type = "cidr" -> \E k \in 1..Len(rule.Value) : rule.Value[k] = "/"
         [] rule.Type = "domain" ->
              \A k \in 1..Len(rule.Value) : rule.Value[k] \notin WhitespaceChars
         [] OTHER -> FALSE

\* C32: a list-mode policy with rules fails validation exactly when one of
\* its rules is not valid: an empty value, an ip that is not four dotted
\* octets in 0..255 without leading zeros, a cidr without /, a domain with a
\* whitespace character, or another type
C32_RuleAcceptedIff ==
    (/\ ap.calls > 0
     /\ ap.config.Mode \in {NetworkModeAllowlist, NetworkModeBlocklist}
     /\ Len(ap.config.Rules) > 0)
    => ((ap.msg = "invalid network config")
        <=> (\E k \in 1..Len(ap.config.Rules) : ~WantAccept(ap.config.Rules[k])))

(***************************************************************************)
(* C33: which Host values are parsed as VM requests, and into what.        *)
(***************************************************************************)
\* the first label of a host: everything before its first dot
FirstLabel(host) ==
    LET dots == {k \in 1..Len(host) : host[k] = "."}
    IN  IF dots = {} THEN host
        ELSE SubSeq(host, 1, (CHOOSE k \in dots : \A j \in dots : k <= j) - 1)

\* the position of the last dash of a label that has one
LastDash(label) ==
    CHOOSE k \in 1..Len(label) :
        label[k] = "-" /\ \A j \in (k + 1)..Len(label) : label[j] # "-"

\* whether the host is to be taken as a VM request
WantOK(host) ==
    IF host = hostVM THEN TRUE ELSE (CHOOSE c \in ParseCases : c.host = host).ok

\* C33: a request falls through exactly when its Host has not the form
\* name-port.domain[:digits] with a one to five digit port; otherwise the
\* name is what precedes the last dash of the first label and the port is
\* the number after it
C33_ParseHost ==
    \A r \in Req :
        req[r].pc # "new" =>
            LET host == req[r].host
                label == FirstLabel(host)
            IN  /\ (req[r].resp = "next") <=> ~WantOK(host)
                /\ WantOK(host) =>
                      /\ req[r].vm = SubSeq(label, 1, LastDash(label) - 1)
                      /\ req[r].port = Atoi(SubSeq(label, LastDash(label) + 1, Len(label)))

(***************************************************************************)
(* C34: which origins the shell endpoint upgrades.                         *)
(***************************************************************************)
\* the origins to be let through: none, a local one, or the request's host
WantOrigin(r) ==
    LET c == CHOOSE c \in OriginCases : c.origin = r.origin /\ c.host = r.host
    IN  \/ r.origin = << >>
        \/ /\ c.parses
           /\ \/ c.originName \in {<<"l", "o", "c", "a", "l", "h", "o", "s", "t">>,
                                   <<"1", "2", "7", ".", "0", ".", "0", ".", "1">>,
                                   <<":", ":", "1">>}
              \/ c.originName = c.hostName

\* C34: a well-formed handshake for a running VM is upgraded exactly when it
\* has no Origin, or the Origin's hostname is localhost, 127.0.0.1 or ::1, or
\* equals the hostname of the Host; on another Origin there is no upgrade and
\* no child process
C34_UpgradeIffOrigin ==
    (/\ ws.status # ""
     /\ ~ws.info.err /\ ws.info.state = StateRunning
     /\ ws.request.handshake)
    => /\ (ws.status = "101") <=> WantOrigin(ws.request)
       /\ ~WantOrigin(ws.request) =>
             ~ws.open /\ cmd.state = "none" /\ ~ptmx.started

(***************************************************************************)
(* C35: the shell endpoint serves running VMs only.                        *)
(***************************************************************************)
\* C35: the connection is upgraded and a child spawned only when Info
\* succeeded and reported Running; a VM that is not found is answered 404
\* and one that is not Running 400, without upgrade and without child
C35_OnlyRunningUpgrades ==
    /\ (ws.open \/ ptmx.started \/ cmd.state # "none")
          => (~ws.info.err /\ ws.info.state = StateRunning)
    /\ (ws.status # "" /\ ws.info.err)
          => (ws.status = "404" /\ ~ws.open /\ ~ptmx.started /\ cmd.state = "none")
    /\ (ws.status # "" /\ ~ws.info.err /\ ws.info.state # StateRunning)
          => (ws.status = "400" /\ ~ws.open /\ ~ptmx.started /\ cmd.state = "none")

\* a well-formed handshake without Origin for a suspended VM was answered
\* 400
C35_Witness ==
    /\ ws.status = "400" /\ ~ws.info.err /\ ws.info.state = StateSuspended
    /\ ws.request.handshake /\ ws.request.origin = << >>
    /\ ~ws.open /\ cmd.state = "none"

(***************************************************************************)
(* C36: which requests the API's middleware lets through.                  *)
(***************************************************************************)
\* the spellings of the scheme in the workload that read "bearer"
BearerSpellings ==
    {<<"B", "e", "a", "r", "e", "r">>, <<"b", "e", "a", "r", "e", "r">>,
     <<"B", "E", "A", "R", "E", "R">>, <<"b", "E", "a", "R", "e", "R">>}

\* the request carries the auth cookie with the configured token
HasTokenCookie(r, token) ==
    \E k \in 1..Len(r.cookies) :
        r.cookies[k].name = "dabbi_auth" /\ r.cookies[k].value = token

\* the Authorization header reads 'Bearer <token>'
HasBearerToken(r, token) ==
    \E scheme \in BearerSpellings : r.authorization = scheme \o <<" ">> \o token

\* C36: the handler is invoked exactly when the auth cookie or a Bearer
\* header holds the configured token; a valid cookie wins over any header,
\* an invalid cookie leaves the decision to the header, and every other
\* request is answered 401 without the handler
C36_HandlerIffAuthenticated ==
    server.api.handled =>
        LET r == server.api.request
            token == IF server.api.token = "" THEN << >> ELSE <<server.api.token>>
        IN  /\ server.api.next <=> (HasTokenCookie(r, token) \/ HasBearerToken(r, token))
            /\ server.api.next => server.api.status = "200"
            /\ ~server.api.next => server.api.status = "401"

\* the cookie holds the token and the header a wrong one: the handler ran
C36_Witness ==
    /\ server.api.handled /\ server.api.next /\ server.api.token = "tok"
    /\ HasTokenCookie(server.api.request, <<"tok">>)
    /\ server.api.request.authorization = <<"B", "e", "a", "r", "e", "r", " ", "wrong">>

(***************************************************************************)
(* C37: a deleted tunnel stops accepting and lets its connections drain.   *)
(***************************************************************************)
\* Delete has returned for every tunnel there is
AllDeleted == \A t \in TunIds : tun[t].made => tun[t].lsnCloses > 0

\* once Delete has returned, the accept loop of the tunnel exits
C37_LoopExits ==
    \A t \in TunIds : (tun[t].lsnCloses > 0) ~> (tun[t].serve = "exited")

\* after Delete has returned no client connection is accepted, and no step
\* of Delete touches a connection
C37_NoAcceptNoCut ==
    /\ (AllDeleted /\ hconn.pc = "idle") => hconn'.pc = "idle"
    /\ caller' # caller => UNCHANGED connVars

\* a connection stays open on both sides until both copy directions have
\* finished, deleted tunnel or not
C37_OpenUntilCopied ==
    (hconn.dialed /\ \E d \in Dirs : copy[d].pc # "done")
        => (sock["client"].open /\ sock["target"].open)

\* C37: after Delete has returned the accept loop eventually exits and
\* accepts no further connection; a connection accepted before is not cut by
\* Delete and stays open until both of its copy directions have finished
C37_DeletedTunnelDrains ==
    /\ C37_LoopExits
    /\ [][C37_NoAcceptNoCut]_vars
    /\ []C37_OpenUntilCopied

\* Delete has returned and the loop has exited while a connection accepted
\* before is still copying in one direction
C37_Witness ==
    /\ tun[1].lsnCloses > 0 /\ tun[1].serve = "exited"
    /\ hconn.pc = "wait"
    /\ copy["up"].pc = "done" /\ copy["down"].pc = "read"
    /\ sock["client"].open /\ sock["target"].open


\* a sample without immediate activity: no recent PTY use and load at most 0.1
QuietSample(stats) ==
    /\ ~(stats.PTYIdleSeconds >= 0 /\ stats.PTYIdleSeconds < TimeoutMins * 60)
    /\ stats.LoadAverage1Min <= 10

\* the checkpoint of v as the check in this step reads it: there and parseable
ReadableCheckpoint(v) ==
    last'.readOK /\ guest[v].file.kind = "json" /\ guest[v].file.tsok

\* the check in this step has to rewrite the checkpoint of v
WantRewrite(v) ==
    \/ ~QuietSample(last'.stats)
    \/ ~ReadableCheckpoint(v)
    \/ ExactDeltaExceeds(last'.stats.RxBytes, guest[v].file.rx,
                         last'.stats.TxBytes, guest[v].file.tx, 100000)

\* C38: a check whose sample was read calls writeCheckpoint exactly when the
\* sample shows immediate activity, or the checkpoint is absent or
\* unparseable, or |drx| + |dtx| exceeds 100000; a checkpoint that changes in
\* a check becomes (now, rx, tx) of the sample, and in the remaining case it
\* is left as it was, whether or not Stop is issued.
C38_CheckpointRewrittenIff ==
    [][\A v \in Watched :
          Checks(v) /\ last'.statsOK
          => /\ (last'.act = "write") <=> WantRewrite(v)
             /\ guest'[v].file # guest[v].file
                => /\ last'.act = "write"
                   /\ guest'[v].file =
                         NewCheckpoint(now, last'.stats.RxBytes, last'.stats.TxBytes)
             /\ ~WantRewrite(v) => guest'[v].file = guest[v].file]_vars


(***************************************************************************)
(* Wake tickets and Start calls.                                           *)
(***************************************************************************)
\* the requests whose LoadOrStore took the ticket
Acquired == {r \in Req : req[r].launched}

\* the background tasks whose Start has been called
Started == {r \in Req : task[r].pc \in {"inStart", "wait", "defer", "done"}}

\* the background tasks that have not yet released their ticket
Holding(vm) == {r \in Req : req[r].vm = vm /\ task[r].pc \in {"spawned", "inStart", "wait", "defer"}}

\* an acquisition has a goroutine and a goroutine an acquisition; the engine
\* has received one Start per goroutine that got as far as calling it; a
\* ticket is in the map exactly while the one task that took it has not
\* released it
C39_TicketsMatchStarts ==
    /\ \A r \in Req : (task[r].pc # "none") <=> (r \in Acquired)
    /\ starts = Cardinality(Started)
    /\ \A vm \in VMNames :
          /\ Cardinality(Holding(vm)) <= 1
          /\ (vm \in waking) <=> (Holding(vm) # {})

\* a Start is called by a task that holds the ticket of its VM; the map
\* changes only when a request takes a free ticket and launches its task, or
\* when a task that is through with Start and the wait releases its own ticket
C39_StepsUnderTicket ==
    /\ starts' # starts
       => /\ starts' = starts + 1
          /\ \E r \in Acquired :
                /\ task[r].pc = "spawned" /\ task'[r].pc = "inStart"
                /\ req[r].vm \in waking /\ waking' = waking
    /\ waking' # waking
       => \E r \in Req :
             LET vm == req[r].vm
             IN  \/ /\ req[r].pc = "wake" /\ vm \notin waking
                    /\ waking' = waking \cup {vm}
                    /\ task[r].pc = "none" /\ task'[r].pc = "spawned"
                    /\ req'[r].launched
                    /\ \A q \in Req \ {r} : task'[q] = task[q]
                 \/ /\ task[r].pc = "defer" /\ task'[r].pc = "done"
                    /\ vm \in waking
                    /\ waking' = waking \ {vm}
                    /\ starts' = starts

\* C39: wake tickets and Start calls correspond one to one: each acquisition
\* of a VM's ticket launches one task, which calls Start for that VM once and
\* then releases the ticket once; Start is never called without the ticket.
C39_OneStartPerTicket ==
    /\ []C39_TicketsMatchStarts
    /\ [][C39_StepsUnderTicket]_vars
    /\ \A r \in Req : (r \in Acquired) ~> (r \in Started /\ task[r].pc = "done")

\* two tickets for one VM, one after the other: two Starts, both released
C39_Witness ==
    \E r1, r2 \in Req :
        /\ r1 # r2
        /\ req[r1].vm = req[r2].vm
        /\ r1 \in Acquired /\ r2 \in Acquired
        /\ task[r1].pc = "done" /\ task[r2].pc = "done"
        /\ starts = 2
        /\ req[r1].vm \notin waking


(***************************************************************************)
(* The agent listener manager.                                             *)
(***************************************************************************)
\* listener i is bound and its goroutine serves it
Serving(i) == lstn[i].bound /\ lstn[i].g = "serving"

\* a Stop has taken listener i out of the map and is about to shut it down
InStop(i) == \E c \in MgrCallers : mcall[c].pc = "shutdown" /\ mcall[c].l = i

\* every serving listener that no Stop has in hand is the map's entry for
\* its VM name, and a VM name has at most one serving listener
C40_ServingIsRecorded ==
    /\ \A i \in LsnIds :
          Serving(i) /\ ~InStop(i) => listeners[lstn[i].vmName] = i
    /\ \A i, j \in LsnIds :
          Serving(i) /\ Serving(j) /\ lstn[i].vmName = lstn[j].vmName => i = j

\* a StopAll during which no Start ran returns: no listener serves any more,
\* but for one a concurrent Stop is about to shut down
C40_StopAllLeavesNone ==
    \A c \in MgrCallers :
        (mcall[c].op = "StopAll" /\ mcall[c].alone /\ mcall'[c].pc = "idle")
        => \A i \in LsnIds :
              ~(lstn'[i].bound /\ lstn'[i].g = "serving"
                /\ ~\E d \in MgrCallers : mcall'[d].pc = "shutdown" /\ mcall'[d].l = i)

\* C40: under any interleaving of Start, Stop and StopAll every agent
\* listener that is bound and serving is recorded in the map under its VM
\* name, at most one per name; and when StopAll returns with no Start running
\* concurrently no agent listener remains open.
C40_ListenersRecorded ==
    /\ []C40_ServingIsRecorded
    /\ [][C40_StopAllLeavesNone]_vars
====
